---- MODULE Spec2Model ----
(***************************************************************************)
(* Verification model of the Lumen interpreter (ppiod/lumen-lang).         *)
(*                                                                         *)
(* Part I   - the tree-walking evaluator and its Environment chain         *)
(*            (src/interpreter/evaluator, src/core/globals.ts).            *)
(* Part II  - the module loader (src/loader.ts).                           *)
(* Part III - module exposure in the type checker and the evaluator.       *)
(* Part IV  - types, substitute and unify.                                 *)
(* Part V   - the type checker on `?`, match, assignment and literals.     *)
(* Part VI  - hash keys in the evaluator.                                  *)
(* Part VII - the expression parser on lambda expressions.                 *)
(* Part VIII - the lexer.                                                  *)
(* Part IX  - substitute and instantiation on type objects.                *)
(***************************************************************************)
EXTENDS Integers, Sequences, FiniteSets, TLC

VARIABLES
  program,   \* the scenario (fam, site, how, a, b) whose program is under evaluation
  pc,        \* evalProgram: index of the next top-level statement
  st,        \* evaluator store: heap of Environment frames, console, application log
  result,    \* evalProgram: value of the last statement evaluated
  halted,    \* evalProgram has returned
  cache,         \* ModuleLoader.cache: module name -> identity of its LoadedModule record
  loadingStack,  \* ModuleLoader.loadingStack
  frames,        \* the activations of load / loadUserModule, innermost last
  ret,           \* the value a load call has just returned to its caller (NoRet: none)
  called,        \* argument of the most recent load call
  loads,         \* number of outermost load calls made so far
  nextId,        \* identity of the next LoadedModule record to be created
  work,          \* history: per module, how often its file was read, checked, evaluated
  hist,          \* history: per module, the record of its first success and its last outcome
  cycleHit,      \* history: a cycle error was returned during the current outermost load
  evaluated,     \* history: per LoadedModule record, how far its evaluation has come
  exporter,   \* the loaded module M: its header, its exposing list, the kind of each name
  importer,   \* the importing program: `use M (names)` or `use M; M.n`
  phase,      \* loadUserModule of the importer: "check", "eval" or "done"
  typeBound,  \* names bound in the importer's TypeEnvironment
  evalBound,  \* names bound in the importer's Environment
  outcome,    \* what check and Eval answered for the importer
  t1,         \* unify: the first type
  t2,         \* unify: the second type
  substitutions, \* unify: the substitution map, before and then after the call
  unified,    \* unify: "pending", or "true" / "false" as the call returned
  ast,        \* check: the syntax under check
  tenv,       \* check: the chain of TypeEnvironments, the global one first
  checked,    \* check: Unchecked, or the type check returned for the node
  at,         \* check: the number of enclosing declarations check has passed
  hashPairs,  \* the pairs of the LumenHash bound to h
  hashOp,     \* the operation on h evaluated last, with its keys
  hashResult, \* what Eval returned for it
  source,      \* parser: the expression under parse, its parameter lists and its body
  parsed,      \* parser: what parseExpression returned, the position it stopped at, the errors
  input,       \* lexer: the source text, a sequence of characters
  lexer,       \* lexer: position, readPosition, ch, line and column of the Lexer
  lexed,       \* history: the tokens nextToken has returned, each with where it started and what the call consumed
  objects,     \* types as objects: the LumenType objects in memory, referring to each other by identity
  job,         \* the call under way: substitute or an instantiate function, its target and its arguments
  made         \* the object the call returned (0: not yet) and the calls of substitute it took

evalVars == <<program, pc, st, result, halted>>

loaderVars == <<cache, loadingStack, frames, ret, called, loads, nextId, work, hist, cycleHit, evaluated>>

useVars == <<exporter, importer, phase, typeBound, evalBound, outcome>>

unifyVars == <<t1, t2, substitutions, unified>>

checkVars == <<ast, tenv, checked, at>>

hashVars == <<hashPairs, hashOp, hashResult>>

parseVars == <<source, parsed>>

lexVars == <<input, lexer, lexed>>

substVars == <<objects, job, made>>

vars == <<evalVars, loaderVars, useVars, unifyVars, checkVars, hashVars, parseVars, lexVars, substVars>>

exceptEval == <<loaderVars, useVars, unifyVars, checkVars, hashVars, parseVars, lexVars, substVars>>

exceptLoader == <<evalVars, useVars, unifyVars, checkVars, hashVars, parseVars, lexVars, substVars>>

exceptUse == <<evalVars, loaderVars, unifyVars, checkVars, hashVars, parseVars, lexVars, substVars>>

exceptUnify == <<evalVars, loaderVars, useVars, checkVars, hashVars, parseVars, lexVars, substVars>>

exceptCheck == <<evalVars, loaderVars, useVars, unifyVars, hashVars, parseVars, lexVars, substVars>>

exceptHash == <<evalVars, loaderVars, useVars, unifyVars, checkVars, parseVars, lexVars, substVars>>

exceptParse == <<evalVars, loaderVars, useVars, unifyVars, checkVars, hashVars, lexVars, substVars>>

exceptLex == <<evalVars, loaderVars, useVars, unifyVars, checkVars, hashVars, parseVars, substVars>>

exceptSubst == <<evalVars, loaderVars, useVars, unifyVars, checkVars, hashVars, parseVars, lexVars>>

(***************************************************************************)
(* Bounds                                                                  *)
(***************************************************************************)
MaxVal == 2

MaxLoads == 2

MaxUses == 1

MaxNest == 1

\* function literals nested around a `?` expression
MaxFns == 2

\* arms of a match expression
MaxArms == 2

\* declarations of a name before an assignment to it
MaxBinders == 2

\* elements of an array literal, pairs of a hash literal
MaxElems == 2

\* lambdas nested in one expression
MaxLambdas == 2

\* characters in the input of the lexer
MaxInput == 3

\* type objects in memory before substitute or instantiate is called
MaxObjects == 3

Vals == 1..MaxVal

(***************************************************************************)
(* Runtime values (src/runtime/objects.ts).  Every value is a record with  *)
(* a kind tag k; the payload field of each kind has its own name.          *)
(***************************************************************************)
NULL == [k |-> "NULL"]

Undefined == [k |-> "undefined"]

LumenInteger(n) == [k |-> "Integer", value |-> n]

LumenBoolean(b) == [k |-> "Boolean", bool |-> b]

LumenReturnValue(v) == [k |-> "RETURN_VALUE", inner |-> v]

LumenError(msg) == [k |-> "ERROR", message |-> msg]

LumenFunction(params, body, env) ==
  [k |-> "FUNCTION", parameters |-> params, body |-> body, env |-> env]

LumenBuiltin(name) == [k |-> "BUILTIN", name |-> name]

LumenArray(elems) == [k |-> "Array", elements |-> elems]

LumenSumTypeInstance(typeName, variantName, values) ==
  [k |-> "SUM_TYPE_INSTANCE", typeName |-> typeName, variantName |-> variantName,
   values |-> values]

VariantConstructor(name, typeName) ==
  [k |-> "VARIANT_CONSTRUCTOR", name |-> name, typeName |-> typeName]

TRUE_OBJ == LumenBoolean(TRUE)

FALSE_OBJ == LumenBoolean(FALSE)

isTruthy(obj) == obj.k # "NULL" /\ ~(obj.k = "Boolean" /\ obj.bool = FALSE)

(***************************************************************************)
(* AST nodes (the subset of @syntax/ast the evaluator scenarios use).      *)
(***************************************************************************)
IntegerLiteral(n) == [t |-> "IntegerLiteral", value |-> n]

BooleanLiteral(b) == [t |-> "BooleanLiteral", bool |-> b]

Identifier(name) == [t |-> "Identifier", value |-> name]

LetStatement(name, isMutable, value) ==
  [t |-> "LetStatement", name |-> name, isMutable |-> isMutable, expr |-> value]

ReturnStatement(e) == [t |-> "ReturnStatement", returnValue |-> e]

ExpressionStatement(e) == [t |-> "ExpressionStatement", expression |-> e]

BlockStatement(stmts) == [t |-> "BlockStatement", statements |-> stmts]

FunctionLiteral(params, body) ==
  [t |-> "FunctionLiteral", parameters |-> params, body |-> body]

CallExpression(func, args) == [t |-> "CallExpression", func |-> func, args |-> args]

InfixExpression(left, op, right) ==
  [t |-> "InfixExpression", left |-> left, operator |-> op, right |-> right]

TryExpression(left) == [t |-> "TryExpression", left |-> left]

ArrayLiteral(elems) == [t |-> "ArrayLiteral", elements |-> elems]

MatchExpression(value, arms) == [t |-> "MatchExpression", value |-> value, arms |-> arms]

MatchArm(pattern, body) == [pattern |-> pattern, body |-> body]

Wildcard == [t |-> "WildcardPattern"]

IfExpression(cond, cons) ==
  [t |-> "IfExpression", condition |-> cond, consequence |-> cons]

(***************************************************************************)
(* Environment (src/interpreter/evaluator/environment.ts).  The heap is a  *)
(* sequence of frames; a frame is [store, outer], outer = 0 for null.      *)
(***************************************************************************)
NoBinding == [value |-> Undefined, isMutable |-> FALSE]

NewEnvironment(heap, outer) == Append(heap, [store |-> << >>, outer |-> outer])

RECURSIVE getBinding(_, _, _)
getBinding(heap, e, name) ==
  IF name \in DOMAIN heap[e].store THEN heap[e].store[name]
  ELSE IF heap[e].outer # 0 THEN getBinding(heap, heap[e].outer, name)
  ELSE NoBinding

get(heap, e, name) == getBinding(heap, e, name).value

\* The frame Environment.set stops at: the nearest frame, from e outwards,
\* whose store has the name (lines 59 and 68-79); 0 when the walk ends.
RECURSIVE definingFrame(_, _, _)
definingFrame(heap, e, name) ==
  IF e = 0 THEN 0
  ELSE IF name \in DOMAIN heap[e].store THEN e
  ELSE definingFrame(heap, heap[e].outer, name)

\* A set that never looks at the enclosing frames.
setShadowing(heap, e, name, val, isMutable) ==
  IF name \in DOMAIN heap[e].store
  THEN IF ~heap[e].store[name].isMutable THEN heap
       ELSE [heap EXCEPT ![e].store[name].value = val]
  ELSE [heap EXCEPT ![e].store = (name :> [value |-> val, isMutable |-> isMutable]) @@ @]

set(heap, e, name, val, isMutable) ==
  LET d == definingFrame(heap, e, name) IN
  IF d # 0
  THEN IF ~heap[d].store[name].isMutable THEN heap
       ELSE [heap EXCEPT ![d].store[name].value = val]
  ELSE [heap EXCEPT ![e].store = (name :> [value |-> val, isMutable |-> isMutable]) @@ @]

(***************************************************************************)
(* Evaluator (src/interpreter/evaluator/evaluator.ts).  Eval returns the   *)
(* value together with the store it leaves behind.  The store s has        *)
(*   heap     the Environment frames,                                      *)
(*   out      what writeln printed (console.log), one entry per call,      *)
(*   applied  history: the value each application of a LumenFunction by    *)
(*            applyFunction / applyUserFunction handed to its caller.      *)
(***************************************************************************)
R(v, s) == [v |-> v, st |-> s]

ModuleEnv == 1

BuiltinNames == {"writeln", "map", "filter", "reduce"}

variantToSumType == [n \in {"Ok", "Err"} |-> "Result"]

nativeBoolToBooleanObject(b) == IF b THEN TRUE_OBJ ELSE FALSE_OBJ

evalIdentifier(name, env, s) ==
  LET val == get(s.heap, env, name) IN
  IF val.k # "undefined" THEN val
  ELSE IF name \in BuiltinNames THEN LumenBuiltin(name)
  ELSE IF name \in DOMAIN variantToSumType
       THEN VariantConstructor(name, variantToSumType[name])
  ELSE LumenError("identifier not found")

\* evaluator.ts 189-262 for the operators + and - (the scenarios use no other).
evalInfixExpression(operator, left, right) ==
  IF left.k = "Integer" /\ right.k = "Integer"
  THEN IF operator = "+" THEN LumenInteger(left.value + right.value)
       ELSE IF operator = "-" THEN LumenInteger(left.value - right.value)
       ELSE LumenError("unknown operator")
  ELSE IF left.k # right.k THEN LumenError("type mismatch")
  ELSE LumenError("unknown operator")

RECURSIVE bindParameters(_, _, _, _, _, _)
bindParameters(heap, e, params, args, isMutable, i) ==
  IF i > Len(params) THEN heap
  ELSE bindParameters(set(heap, e, params[i], args[i], isMutable),
                      e, params, args, isMutable, i + 1)

RECURSIVE Eval(_, _, _)
RECURSIVE evalExpressions(_, _, _, _, _)
RECURSIVE evalBlockStatement(_, _, _, _)
RECURSIVE applyFunction(_, _, _)
RECURSIVE applyUserFunction(_, _, _)
RECURSIVE mapLoop(_, _, _, _, _)
RECURSIVE filterLoop(_, _, _, _, _)
RECURSIVE reduceLoop(_, _, _, _, _)
RECURSIVE evalMatchArms(_, _, _, _, _)

\* evaluator.ts 300-312; a one-element result holding an ERROR is the failure.
evalExpressions(exps, i, acc, env, s) ==
  IF i > Len(exps) THEN [vs |-> acc, st |-> s]
  ELSE LET r == Eval(exps[i], env, s) IN
       IF r.v.k = "ERROR" THEN [vs |-> <<r.v>>, st |-> r.st]
       ELSE evalExpressions(exps, i + 1, Append(acc, r.v), env, r.st)

\* evaluator.ts 94-110, from statement i on.
evalBlockStatement(stmts, i, env, s) ==
  IF i > Len(stmts) THEN R(NULL, s)
  ELSE LET r == Eval(stmts[i], env, s) IN
       IF r.v.k \in {"RETURN_VALUE", "ERROR"} \/ i = Len(stmts) THEN r
       ELSE evalBlockStatement(stmts, i + 1, env, r.st)

\* evaluator.ts 848-906, from arm i on: every arm gets its own environment,
\* an identifier pattern binds the value in it
evalMatchArms(arms, i, value, env, s) ==
  IF i > Len(arms)
  THEN R(LumenError("no pattern in match expression matched value"), s)
  ELSE LET armEnv == Len(s.heap) + 1
           h1 == NewEnvironment(s.heap, env)
           pattern == arms[i].pattern
       IN IF pattern.t = "WildcardPattern"
          THEN Eval(arms[i].body, armEnv, [s EXCEPT !.heap = h1])
          ELSE IF pattern.t = "Identifier"
          THEN Eval(arms[i].body, armEnv,
                    [s EXCEPT !.heap = set(h1, armEnv, pattern.value, value, TRUE)])
          ELSE evalMatchArms(arms, i + 1, value, env, [s EXCEPT !.heap = h1])

\* globals.ts 28-45
applyUserFunction(fn, args, s) ==
  IF fn.k = "FUNCTION"
  THEN LET e  == Len(s.heap) + 1
           h1 == NewEnvironment(s.heap, fn.env)
           h2 == bindParameters(h1, e, fn.parameters, args, TRUE, 1)
           r  == Eval(fn.body, e, [s EXCEPT !.heap = h2])
       IN R(r.v, [r.st EXCEPT !.applied = Append(@, r.v)])
  ELSE R(LumenError("Expected a function"), s)

\* globals.ts 178-184
mapLoop(elems, i, fn, acc, s) ==
  IF i > Len(elems) THEN R(LumenArray(acc), s)
  ELSE LET r == applyUserFunction(fn, <<elems[i]>>, s) IN
       IF r.v.k = "ERROR" THEN r
       ELSE mapLoop(elems, i + 1, fn, Append(acc, r.v), r.st)

\* globals.ts 207-216
filterLoop(elems, i, fn, acc, s) ==
  IF i > Len(elems) THEN R(LumenArray(acc), s)
  ELSE LET r == applyUserFunction(fn, <<elems[i]>>, s) IN
       IF r.v.k = "ERROR" THEN r
       ELSE filterLoop(elems, i + 1, fn,
                       IF r.v.k = "Boolean" /\ r.v.bool THEN Append(acc, elems[i]) ELSE acc,
                       r.st)

\* globals.ts 240-244
reduceLoop(elems, i, fn, accumulator, s) ==
  IF i > Len(elems) THEN R(accumulator, s)
  ELSE LET r == applyUserFunction(fn, <<accumulator, elems[i]>>, s) IN
       IF r.v.k = "ERROR" THEN r
       ELSE reduceLoop(elems, i + 1, fn, r.v, r.st)

\* globals.ts 47-247: writeln, map, filter, reduce
applyBuiltin(name, args, s) ==
  IF name = "writeln" THEN R(NULL, [s EXCEPT !.out = Append(@, args)])
  ELSE IF name = "map"
  THEN IF Len(args) # 2 THEN R(LumenError("wrong number of arguments"), s)
       ELSE IF args[1].k # "Array" THEN R(LumenError("first argument must be an array"), s)
       ELSE IF args[2].k # "FUNCTION" THEN R(LumenError("second argument must be a function"), s)
       ELSE mapLoop(args[1].elements, 1, args[2], << >>, s)
  ELSE IF name = "filter"
  THEN IF Len(args) # 2 THEN R(LumenError("wrong number of arguments"), s)
       ELSE IF args[1].k # "Array" THEN R(LumenError("first argument must be an array"), s)
       ELSE IF args[2].k # "FUNCTION" THEN R(LumenError("second argument must be a function"), s)
       ELSE filterLoop(args[1].elements, 1, args[2], << >>, s)
  ELSE IF Len(args) # 3 THEN R(LumenError("wrong number of arguments"), s)
       ELSE IF args[1].k # "Array" THEN R(LumenError("first argument must be an array"), s)
       ELSE IF args[3].k # "FUNCTION" THEN R(LumenError("third argument must be a function"), s)
       ELSE reduceLoop(args[1].elements, 1, args[3], args[2], s)

\* evaluator.ts 30-75
applyFunction(fn, args, s) ==
  IF fn.k = "FUNCTION"
  THEN LET e  == Len(s.heap) + 1
           h1 == NewEnvironment(s.heap, fn.env)
       IN IF Len(fn.parameters) # Len(args)
          THEN R(LumenError("wrong number of arguments"), [s EXCEPT !.heap = h1])
          ELSE LET h2 == bindParameters(h1, e, fn.parameters, args, FALSE, 1)
                   r  == Eval(fn.body, e, [s EXCEPT !.heap = h2])
                   v  == IF r.v.k = "RETURN_VALUE" THEN r.v.inner ELSE r.v
               IN R(v, [r.st EXCEPT !.applied = Append(@, v)])
  ELSE IF fn.k = "BUILTIN" THEN applyBuiltin(fn.name, args, s)
  ELSE IF fn.k = "VARIANT_CONSTRUCTOR"
  THEN R(LumenSumTypeInstance(fn.typeName, fn.name, args), s)
  ELSE R(LumenError("not a function"), s)

\* An assignment that leaves the mutability check to Environment.set, whose
\* answer to an immutable binding is to do nothing.
evalAssignmentSilent(node, env, s) ==
  LET name == node.left.value
      r == Eval(node.right, env, s)
      binding == getBinding(r.st.heap, env, name)
  IN IF r.v.k = "ERROR" THEN r
     ELSE IF binding.value.k = "undefined"
     THEN R(LumenError("cannot assign to undeclared variable"), r.st)
     ELSE LET v == IF node.operator = "=" THEN r.v
                   ELSE LumenInteger(binding.value.value + r.v.value)
          IN R(v, [r.st EXCEPT !.heap = set(@, env, name, v, TRUE)])

\* evaluator.ts 566-632: `=` and `+=` on an identifier target
evalAssignment(node, env, s) ==
  LET name == node.left.value IN
  IF node.operator = "="
  THEN LET r == Eval(node.right, env, s) IN
       IF r.v.k = "ERROR" THEN r
       ELSE LET binding == getBinding(r.st.heap, env, name) IN
            IF binding.value.k = "undefined"
            THEN R(LumenError("cannot assign to undeclared variable"), r.st)
            ELSE IF ~binding.isMutable
            THEN R(LumenError("cannot assign to immutable variable"), r.st)
            ELSE R(r.v, [r.st EXCEPT !.heap = set(@, env, name, r.v, TRUE)])
  ELSE LET binding == getBinding(s.heap, env, name) IN
       IF binding.value.k = "undefined"
       THEN R(LumenError("cannot assign to undeclared variable"), s)
       ELSE IF ~binding.isMutable
       THEN R(LumenError("cannot assign to immutable variable"), s)
       ELSE LET r == Eval(node.right, env, s) IN
            IF r.v.k = "ERROR" THEN r
            ELSE LET sum == LumenInteger(binding.value.value + r.v.value) IN
                 R(sum, [r.st EXCEPT !.heap = set(@, env, name, sum, TRUE)])

\* evaluator.ts 379-783
Eval(node, env, s) ==
  CASE node.t = "BlockStatement" -> evalBlockStatement(node.statements, 1, env, s)
    [] node.t = "ExpressionStatement" -> Eval(node.expression, env, s)
    [] node.t = "ReturnStatement" ->
         LET r == Eval(node.returnValue, env, s) IN
         IF r.v.k = "ERROR" THEN r ELSE R(LumenReturnValue(r.v), r.st)
    [] node.t = "LetStatement" ->
         LET r == Eval(node.expr, env, s) IN
         IF r.v.k \in {"ERROR", "RETURN_VALUE"} THEN r
         ELSE R(NULL, [r.st EXCEPT !.heap = set(@, env, node.name, r.v, node.isMutable)])
    [] node.t = "Identifier" -> R(evalIdentifier(node.value, env, s), s)
    [] node.t = "IntegerLiteral" -> R(LumenInteger(node.value), s)
    [] node.t = "BooleanLiteral" -> R(nativeBoolToBooleanObject(node.bool), s)
    [] node.t = "FunctionLiteral" -> R(LumenFunction(node.parameters, node.body, env), s)
    [] node.t = "InfixExpression" ->
         IF node.operator \in {"=", "+="} THEN evalAssignment(node, env, s)
         ELSE LET l == Eval(node.left, env, s) IN
              IF l.v.k = "ERROR" THEN l
              ELSE LET r == Eval(node.right, env, l.st) IN
                   IF r.v.k = "ERROR" THEN r
                   ELSE R(evalInfixExpression(node.operator, l.v, r.v), r.st)
    [] node.t = "IfExpression" ->
         LET c == Eval(node.condition, env, s) IN
         IF c.v.k = "ERROR" THEN c
         ELSE IF isTruthy(c.v) THEN Eval(node.consequence, env, c.st)
         ELSE R(NULL, c.st)
    [] node.t = "ArrayLiteral" ->
         LET es == evalExpressions(node.elements, 1, << >>, env, s) IN
         IF Len(es.vs) = 1 /\ es.vs[1].k = "ERROR" THEN R(es.vs[1], es.st)
         ELSE R(LumenArray(es.vs), es.st)
    [] node.t = "CallExpression" ->
         LET f == Eval(node.func, env, s) IN
         IF f.v.k = "ERROR" THEN f
         ELSE LET as == evalExpressions(node.args, 1, << >>, env, f.st) IN
              IF Len(as.vs) = 1 /\ as.vs[1].k = "ERROR" THEN R(as.vs[1], as.st)
              ELSE applyFunction(f.v, as.vs, as.st)
    [] node.t = "MatchExpression" ->
         LET v == Eval(node.value, env, s) IN
         IF v.v.k = "ERROR" THEN v ELSE evalMatchArms(node.arms, 1, v.v, env, v.st)
    [] node.t = "TryExpression" ->
         LET l == Eval(node.left, env, s) IN
         IF l.v.k = "ERROR" THEN l
         ELSE IF l.v.k # "SUM_TYPE_INSTANCE" \/ l.v.typeName # "Result"
         THEN R(LumenError("operator ? can only be used on a Result value"), l.st)
         ELSE IF l.v.variantName = "Err" THEN R(LumenReturnValue(l.v), l.st)
         ELSE R(l.v.values[1], l.st)
    [] OTHER -> R(NULL, s)

(***************************************************************************)
(* Scenario programs.  A scenario is (fam, site, how, a, b); Statements    *)
(* builds the statement list the parser produces for it.                   *)
(*   param      let [mut] x = a; let f = (x) => x; let r = f(b); r         *)
(*   try        let f = () => { <V(a)? at site>; writeln(7); Ok(0) }; f()  *)
(*   ret        let f = (p) => { <return a | Err(a)?; 0 | return Err(a)?> }*)
(*              let r = <f applied at site>; writeln(9)                    *)
(*   immAssign  let x = a; x <how> b; writeln(x)                           *)
(*   mutAssign  let mut x = a; x <how> b; x                                *)
(*   arm        let [mut] x = a; let r = match b { x => x }; r             *)
(*   let        let [mut] x = () => a; <let [mut] x = () => b; x() at site>*)
(***************************************************************************)
Call(name, args) == CallExpression(Identifier(name), args)

ES(e) == ExpressionStatement(e)

Fams == {"param", "try", "ret", "immAssign", "mutAssign", "arm", "let"}

Sites(fam) ==
  CASE fam = "param" -> {"module", "function"}
    [] fam = "try" -> {"stmt", "let", "arg", "operand"}
    [] fam = "ret" -> {"direct", "map", "filter", "reduce"}
    [] fam = "immAssign" -> {"same", "closure"}
    [] fam = "mutAssign" -> {"same", "block", "closure", "nested"}
    [] fam = "arm" -> {"identifier", "wildcard"}
    [] fam = "let" -> {"fresh", "redeclare", "function"}

Hows(fam) ==
  CASE fam = "param" -> {"none", "let", "mut"}
    [] fam = "try" -> {"Ok", "Err"}
    [] fam = "ret" -> {"return", "try", "returntry"}
    [] fam = "immAssign" -> {"=", "+="}
    [] fam = "mutAssign" -> {"=", "+="}
    [] fam = "arm" -> {"let", "mut"}
    [] fam = "let" -> {"let", "mut"}

\* the families whose programs mention a second value
UsesB(fam) == fam \in {"param", "immAssign", "mutAssign", "arm", "let"}

ParamStatements(site, how, a, b) ==
  LET inner == (IF how = "none" THEN << >>
                ELSE <<LetStatement("x", how = "mut", IntegerLiteral(a))>>)
               \o <<LetStatement("f", FALSE, FunctionLiteral(<<"x">>, Identifier("x"))),
                    LetStatement("r", FALSE, Call("f", <<IntegerLiteral(b)>>)),
                    ES(Identifier("r"))>>
  IN IF site = "module" THEN inner
     ELSE <<LetStatement("outer", FALSE, FunctionLiteral(<< >>, BlockStatement(inner))),
            ES(Call("outer", << >>))>>

TryStatements(site, how, a) ==
  LET X == TryExpression(Call(how, <<IntegerLiteral(a)>>))
      first == CASE site = "stmt" -> ES(X)
                 [] site = "let" -> LetStatement("h", FALSE, X)
                 [] site = "arg" -> ES(Call("writeln", <<X>>))
                 [] site = "operand" ->
                      ES(Call("writeln", <<InfixExpression(X, "+", IntegerLiteral(1))>>))
      body == BlockStatement(<<first,
                               ES(Call("writeln", <<IntegerLiteral(7)>>)),
                               ES(Call("Ok", <<IntegerLiteral(0)>>))>>)
  IN <<LetStatement("f", FALSE, FunctionLiteral(<< >>, body)), ES(Call("f", << >>))>>

RetStatements(site, how, a) ==
  LET E == TryExpression(Call("Err", <<IntegerLiteral(a)>>))
      body == CASE how = "return" -> BlockStatement(<<ReturnStatement(IntegerLiteral(a))>>)
                [] how = "try" -> BlockStatement(<<ES(E), ES(IntegerLiteral(0))>>)
                [] how = "returntry" -> BlockStatement(<<ReturnStatement(E)>>)
      params == IF site = "reduce" THEN <<"acc", "p">> ELSE <<"p">>
      one == ArrayLiteral(<<IntegerLiteral(1)>>)
      app == CASE site = "direct" -> Call("f", <<IntegerLiteral(1)>>)
               [] site = "map" -> Call("map", <<one, Identifier("f")>>)
               [] site = "filter" -> Call("filter", <<one, Identifier("f")>>)
               [] site = "reduce" -> Call("reduce", <<one, IntegerLiteral(0), Identifier("f")>>)
  IN <<LetStatement("f", FALSE, FunctionLiteral(params, body)),
       LetStatement("r", FALSE, app),
       ES(Call("writeln", <<IntegerLiteral(9)>>))>>

AssignStatements(isMutable, site, how, a, b) ==
  LET decl == LetStatement("x", isMutable, IntegerLiteral(a))
      assign == ES(InfixExpression(Identifier("x"), how, IntegerLiteral(b)))
      defF == LetStatement("f", FALSE, FunctionLiteral(<< >>, BlockStatement(<<assign>>)))
      callF == ES(Call("f", << >>))
      read == IF isMutable THEN ES(Identifier("x"))
              ELSE ES(Call("writeln", <<Identifier("x")>>))
  IN CASE site = "same" -> <<decl, assign, read>>
       [] site = "block" ->
            <<decl, ES(IfExpression(BooleanLiteral(TRUE), BlockStatement(<<assign>>))), read>>
       [] site = "closure" -> <<decl, defF, callF, read>>
       [] site = "nested" ->
            <<LetStatement("outer", FALSE,
                           FunctionLiteral(<< >>, BlockStatement(<<decl, defF, callF, read>>))),
              ES(Call("outer", << >>))>>

ArmStatements(site, how, a, b) ==
  <<LetStatement("x", how = "mut", IntegerLiteral(a)),
    LetStatement("r", FALSE,
      MatchExpression(IntegerLiteral(b),
        <<MatchArm(IF site = "identifier" THEN Identifier("x") ELSE Wildcard,
                   IntegerLiteral(b))>>)),
    ES(Identifier("r"))>>

\* `let x = () => b` evaluated where x is new, where the same scope has
\* declared x already, and in a function body under a scope that has
LetStatements(site, how, a, b) ==
  LET declare == LetStatement("x", how = "mut", FunctionLiteral(<< >>, IntegerLiteral(b)))
      read == ES(Call("x", << >>))
      before == LetStatement("x", how = "mut", FunctionLiteral(<< >>, IntegerLiteral(a)))
  IN CASE site = "fresh" -> <<declare, read>>
       [] site = "redeclare" -> <<before, declare, read>>
       [] site = "function" ->
            <<before,
              LetStatement("f", FALSE, FunctionLiteral(<< >>, BlockStatement(<<declare, read>>))),
              ES(Call("f", << >>))>>

Statements(fam, site, how, a, b) ==
  CASE fam = "param" -> ParamStatements(site, how, a, b)
    [] fam = "try" -> TryStatements(site, how, a)
    [] fam = "ret" -> RetStatements(site, how, a)
    [] fam = "immAssign" -> AssignStatements(FALSE, site, how, a, b)
    [] fam = "mutAssign" -> AssignStatements(TRUE, site, how, a, b)
    [] fam = "arm" -> ArmStatements(site, how, a, b)
    [] fam = "let" -> LetStatements(site, how, a, b)

\* parseProgram's result for the scenario held in program
ProgramStatements ==
  Statements(program.fam, program.site, program.how, program.a, program.b)

EmptyStore == [heap |-> <<[store |-> << >>, outer |-> 0]>>, out |-> << >>, applied |-> << >>]

InitEval ==
  /\ \E fam \in Fams : \E site \in Sites(fam) : \E how \in Hows(fam) : \E a \in Vals :
       \E b \in (IF UsesB(fam) THEN Vals ELSE {a}) :
         program = [fam |-> fam, site |-> site, how |-> how, a |-> a, b |-> b]
  /\ pc = 1
  /\ st = EmptyStore
  /\ result = NULL
  /\ halted = FALSE

\* evaluator.ts 77-92: one turn of evalProgram's loop
EvalStatement ==
  /\ ~halted
  /\ LET r == Eval(ProgramStatements[pc], ModuleEnv, st) IN
     /\ st' = r.st
     /\ IF r.v.k = "RETURN_VALUE"
        THEN result' = r.v.inner /\ halted' = TRUE /\ pc' = pc
        ELSE IF r.v.k = "ERROR"
        THEN result' = r.v /\ halted' = TRUE /\ pc' = pc
        ELSE result' = r.v /\ pc' = pc + 1 /\ halted' = (pc = Len(ProgramStatements))
  /\ UNCHANGED program
  /\ UNCHANGED exceptEval

(***************************************************************************)
(* Properties of the evaluator                                             *)
(***************************************************************************)
IsInt(v, n) == v.k = "Integer" /\ v.value = n

IsResult(v, variantName, n) ==
  /\ v.k = "SUM_TYPE_INSTANCE"
  /\ v.typeName = "Result"
  /\ v.variantName = variantName
  /\ Len(v.values) = 1
  /\ IsInt(v.values[1], n)

Printed(out, i, n) == i <= Len(out) /\ Len(out[i]) = 1 /\ IsInt(out[i][1], n)

Binds(e, name) == e <= Len(st.heap) /\ name \in DOMAIN st.heap[e].store

\* the frame applyFunction creates for the call f(b) of the param scenarios
ParamCallFrame == IF program.site = "module" THEN 2 ELSE 3

\* the frame that evaluated `let x` in the assignment scenarios
DeclaringFrame == IF program.site = "nested" THEN 2 ELSE 1

\* the frame of the call f() in the try scenarios
TryCallFrame == 2

\* C1: a call f(b) of `(x) => x` binds x to b in the new call frame and the
\* read of x in the body yields b, whatever the enclosing scopes bind x to.
ClaimC1 ==
  (program.fam = "param" /\ halted) =>
    /\ IsInt(result, program.b)
    /\ Binds(ParamCallFrame, "x")
    /\ IsInt(st.heap[ParamCallFrame].store["x"].value, program.b)

\* C2: in the body `<V(a)? at site>; writeln(7); Ok(0)`, Ok(a)? yields a and
\* the body runs on; Err(a)? makes the call return Err(a) and neither the
\* enclosing writeln / + nor the later writeln(7) is executed.
ClaimC2 ==
  (program.fam = "try" /\ halted) =>
    IF program.how = "Err"
    THEN IsResult(result, "Err", program.a) /\ st.out = << >>
    ELSE /\ IsResult(result, "Ok", 0)
         /\ program.site = "let" =>
              (Binds(TryCallFrame, "h")
               /\ IsInt(st.heap[TryCallFrame].store["h"].value, program.a))
         /\ program.site = "arg" => Printed(st.out, 1, program.a)
         /\ program.site = "operand" => Printed(st.out, 1, program.a + 1)
         /\ Printed(st.out, Len(st.out), 7)

\* C3: no application of a function, direct or as a callback of map, filter
\* or reduce, hands a ReturnValue wrapper to its caller, and the caller's
\* statements after the application (writeln(9)) are executed.
ClaimC3 ==
  /\ \A i \in DOMAIN st.applied : st.applied[i].k # "RETURN_VALUE"
  /\ (program.fam = "ret" /\ halted) => (Len(st.out) = 1 /\ Printed(st.out, 1, 9))

\* every binding of x, in any frame, is still the immutable `let x = a`
ImmutableUntouched ==
  \A e \in DOMAIN st.heap :
    "x" \in DOMAIN st.heap[e].store =>
      /\ e = 1
      /\ IsInt(st.heap[e].store["x"].value, program.a)
      /\ ~st.heap[e].store["x"].isMutable

NewValue == IF program.how = "=" THEN program.b ELSE program.a + program.b

\* C10: after `x = b` / `x += b` on the `let mut x = a` reached from the same
\* scope, a nested block, a closure or a closure of an enclosing call, the
\* frame that declared x holds the new value, still mutable, no other frame
\* binds x, and the read made after (and outside) the assignment yields it.
ThmC10 ==
  (program.fam = "mutAssign" /\ halted) =>
    /\ IsInt(result, NewValue)
    /\ Binds(DeclaringFrame, "x")
    /\ IsInt(st.heap[DeclaringFrame].store["x"].value, NewValue)
    /\ st.heap[DeclaringFrame].store["x"].isMutable
    /\ \A e \in DOMAIN st.heap : Binds(e, "x") => e = DeclaringFrame

WitC10 ==
  /\ program.fam = "mutAssign" /\ program.site = "nested" /\ program.a # program.b
  /\ halted /\ Len(st.heap) = 3 /\ IsInt(result, NewValue)

\* the frame whose binding of x encloses the call f(b) or the match
EnclosingFrame == IF program.fam = "param" /\ program.site = "function" THEN 2 ELSE 1

\* C26: binding the parameter x of the call f(b), or the pattern variable x
\* of `match b { x => ... }`, leaves the binding of x in the enclosing scope
\* at the value a it had, whether it was declared with let or with let mut.
ClaimC26 ==
  (program.fam \in {"param", "arm"} /\ program.how # "none" /\ halted) =>
    /\ Binds(EnclosingFrame, "x")
    /\ IsInt(st.heap[EnclosingFrame].store["x"].value, program.a)

\* The same for the enclosing bindings declared with let.
ImmutableEnclosingKept ==
  (program.fam \in {"param", "arm"} /\ program.how = "let" /\ halted) =>
    /\ Binds(EnclosingFrame, "x")
    /\ IsInt(st.heap[EnclosingFrame].store["x"].value, program.a)

\* C30: after `let x = () => b` or `let mut x = () => b` has been evaluated
\* without error, the read x() in that scope yields b: where x is new, where
\* it redeclares an x of the same scope, and in a function body while an
\* enclosing scope binds x.
ClaimC30 == (program.fam = "let" /\ halted) => IsInt(result, program.b)

\* The same where no x was visible before.
FreshLetIsRead ==
  (program.fam = "let" /\ program.site = "fresh" /\ halted) => IsInt(result, program.b)

(***************************************************************************)
(* Part II - the module loader (src/loader.ts).                            *)
(*                                                                         *)
(* load is re-entrant: checking or evaluating a `use` calls load again, so *)
(* the activations are kept in frames and each action is one leg of        *)
(* load / loadUserModule between two nested calls.  What a module's file   *)
(* holds is chosen when the file is read: it cannot be read, or it has     *)
(* parser errors, or it parses into a list of `use` statements followed by *)
(* statements that are well typed and run (fault "none"), or ill typed     *)
(* (fault "type"), or well typed and fail at run time (fault "eval").      *)
(***************************************************************************)
UserModules == {"a", "b"}

NativeModules == {"math"}

Modules == UserModules \cup NativeModules

Faults == {"none", "type", "eval"}

RECURSIVE SeqsUpTo(_, _)
SeqsUpTo(S, n) ==
  IF n = 0 THEN {<< >>}
  ELSE LET shorter == SeqsUpTo(S, n - 1) IN
       shorter \cup {Append(q, x) : q \in shorter, x \in S}

UseLists == SeqsUpTo(Modules, MaxUses)

Elems(q) == {q[i] : i \in DOMAIN q}

Front(q) == SubSeq(q, 1, Len(q) - 1)

NoRet == [name |-> "", ok |-> FALSE, id |-> 0, kind |-> "none", chain |-> << >>]

RetModule(m, id) == [name |-> m, ok |-> TRUE, id |-> id, kind |-> "module", chain |-> << >>]

RetError(m, kind, chain) == [name |-> m, ok |-> FALSE, id |-> 0, kind |-> kind, chain |-> chain]

Frame(m) == [name |-> m, pcl |-> "start", i |-> 1, uses |-> << >>, fault |-> "none", id |-> 0]

\* history: the outcome v of a load call is recorded against its module
Record(h, v) ==
  [h EXCEPT ![v.name] =
     [okId |-> IF v.ok /\ @.okId = 0 THEN v.id ELSE @.okId,
      last |-> IF v.ok THEN "ok" ELSE "err"]]

\* A cycle message that leaves out the module being loaded.
cyclePathStackOnly(stack, m) == stack

\* loader.ts 52
cyclePath(stack, m) == stack \o <<m>>

\* A cache that is never consulted.
cacheHasNever(c, m) == FALSE

\* loader.ts 47
cacheHas(c, m) == m \in DOMAIN c

\* A runtime error that leaves the record in the cache.
cacheDeleteNothing(c, m) == c

\* loader.ts 144
cacheDelete(c, m) == [x \in DOMAIN c \ {m} |-> c[x]]

\* loader.ts 99, 139
cacheSet(c, m, id) == (m :> id) @@ c

\* A checker that takes every load for a success.
loadedIsErrorNever(v) == FALSE

\* checkStatements.ts 184, evaluator.ts 388: loaded instanceof Error
loadedIsError(v) == ~v.ok

\* A loader that evaluates whatever the type checker answered.
checkFailedNever(fault) == FALSE

\* loader.ts 130: typeResult.kind() === TypeKind.ERROR, for the statements
\* of the module other than its `use` statements
checkFailed(fault) == fault = "type"

\* A loader that takes every evaluation for a success.
evalFailedNever(fault) == FALSE

\* loader.ts 143: evalResult instanceof LumenError
evalFailed(fault) == fault = "eval"

\* A load that pops the loading stack only when it succeeds.
popUnlessError(stack, v) == IF v.ok THEN Front(stack) ELSE stack

\* loader.ts 63-65: finally { loadingStack.pop() }
pop(stack, v) == Front(stack)

\* loader.ts 46-56: the call load(m) made with the activations fs; it answers
\* at once from the cache or with the cycle error, or starts an activation.
\* hit is the history flag of the outermost load so far.
Invoke(m, fs, hit) ==
  /\ called' = m
  /\ IF cacheHas(cache, m)
     THEN /\ ret' = RetModule(m, cache[m])
          /\ hist' = Record(hist, RetModule(m, cache[m]))
          /\ frames' = fs
          /\ cycleHit' = hit
          /\ UNCHANGED loadingStack
     ELSE IF m \in Elems(loadingStack)
     THEN /\ ret' = RetError(m, "cycle", cyclePath(loadingStack, m))
          /\ hist' = Record(hist, RetError(m, "cycle", << >>))
          /\ frames' = fs
          /\ cycleHit' = TRUE
          /\ UNCHANGED loadingStack
     ELSE /\ loadingStack' = Append(loadingStack, m)
          /\ frames' = Append(fs, Frame(m))
          /\ ret' = NoRet
          /\ cycleHit' = hit
          /\ UNCHANGED hist

\* loader.ts 58-65: the innermost activation returns v; finally pops the stack
Return(v) ==
  /\ frames' = Front(frames)
  /\ loadingStack' = pop(loadingStack, v)
  /\ ret' = v
  /\ hist' = Record(hist, v)

Top == frames[Len(frames)]

Running(p) == frames # << >> /\ Top.pcl = p

SetTop(f) == [frames EXCEPT ![Len(frames)] = f]

\* cli/commands.ts 13-14 (and any later outermost call on the same loader)
TopLoad(m) ==
  /\ frames = << >> /\ ret = NoRet /\ loads < MaxLoads
  /\ loads' = loads + 1
  /\ Invoke(m, frames, FALSE)
  /\ UNCHANGED <<cache, nextId, work>>
  /\ UNCHANGED evaluated
  /\ UNCHANGED exceptLoader

\* the outermost caller takes the result
TopReturn ==
  /\ frames = << >> /\ ret # NoRet
  /\ ret' = NoRet
  /\ UNCHANGED <<cache, loadingStack, frames, called, loads, nextId, work, hist, cycleHit>>
  /\ UNCHANGED evaluated
  /\ UNCHANGED exceptLoader

\* loader.ts 59-60, 68-101
LoadNative ==
  /\ Running("start") /\ Top.name \in NativeModules
  /\ cache' = cacheSet(cache, Top.name, nextId)
  /\ nextId' = nextId + 1
  /\ evaluated' = Append(evaluated, "done")
  /\ Return(RetModule(Top.name, nextId))
  /\ UNCHANGED <<called, loads, work, cycleHit>>
  /\ UNCHANGED exceptLoader

\* loader.ts 104-111: the file cannot be read
ReadFails ==
  /\ Running("start") /\ Top.name \in UserModules
  /\ work' = [work EXCEPT ![Top.name].reads = @ + 1]
  /\ Return(RetError(Top.name, "read", << >>))
  /\ UNCHANGED <<cache, called, loads, nextId, cycleHit>>
  /\ UNCHANGED evaluated
  /\ UNCHANGED exceptLoader

\* loader.ts 104-119: the file is read and has parser errors
ParseFails ==
  /\ Running("start") /\ Top.name \in UserModules
  /\ work' = [work EXCEPT ![Top.name].reads = @ + 1]
  /\ Return(RetError(Top.name, "parse", << >>))
  /\ UNCHANGED <<cache, called, loads, nextId, cycleHit>>
  /\ UNCHANGED evaluated
  /\ UNCHANGED exceptLoader

\* loader.ts 104-129: the file is read and parsed, the type environment is
\* seeded and check(program) begins
ReadAndParse ==
  /\ Running("start") /\ Top.name \in UserModules
  /\ \E uses \in UseLists : \E fault \in Faults :
       frames' = SetTop([Top EXCEPT !.pcl = "check", !.i = 1, !.uses = uses, !.fault = fault])
  /\ work' = [work EXCEPT ![Top.name].reads = @ + 1, ![Top.name].checks = @ + 1]
  /\ UNCHANGED <<cache, loadingStack, ret, called, loads, nextId, hist, cycleHit>>
  /\ UNCHANGED evaluated
  /\ UNCHANGED exceptLoader

\* checkStatements.ts 181-182: the checker reaches the next `use`
CheckUse ==
  /\ Running("check") /\ Top.i <= Len(Top.uses)
  /\ Invoke(Top.uses[Top.i], SetTop([Top EXCEPT !.pcl = "checkUse"]), cycleHit)
  /\ UNCHANGED <<cache, loads, nextId, work>>
  /\ UNCHANGED evaluated
  /\ UNCHANGED exceptLoader

\* checkStatements.ts 184-230, typechecker.ts 414-415, loader.ts 130-132
CheckUseReturn ==
  /\ Running("checkUse") /\ ret # NoRet
  /\ IF loadedIsError(ret)
     THEN Return(RetError(Top.name, "type", << >>))
     ELSE /\ frames' = SetTop([Top EXCEPT !.pcl = "check", !.i = @ + 1])
          /\ ret' = NoRet
          /\ UNCHANGED <<loadingStack, hist>>
  /\ UNCHANGED <<cache, called, loads, nextId, work, cycleHit>>
  /\ UNCHANGED evaluated
  /\ UNCHANGED exceptLoader

\* loader.ts 129-141: check(program) returns; on success the record is built
\* and cached and Eval(program) begins
CheckEnd ==
  /\ Running("check") /\ Top.i > Len(Top.uses)
  /\ IF checkFailed(Top.fault)
     THEN /\ Return(RetError(Top.name, "type", << >>))
          /\ UNCHANGED <<cache, nextId, work, evaluated>>
     ELSE /\ cache' = cacheSet(cache, Top.name, nextId)
          /\ nextId' = nextId + 1
          /\ evaluated' = Append(evaluated, "running")
          /\ frames' = SetTop([Top EXCEPT !.pcl = "eval", !.i = 1, !.id = nextId])
          /\ work' = [work EXCEPT ![Top.name].evals = @ + 1]
          /\ UNCHANGED <<loadingStack, ret, hist>>
  /\ UNCHANGED <<called, loads, cycleHit>>
  /\ UNCHANGED exceptLoader

\* evaluator.ts 386-387: the evaluator reaches the next `use`
EvalUse ==
  /\ Running("eval") /\ Top.i <= Len(Top.uses)
  /\ Invoke(Top.uses[Top.i], SetTop([Top EXCEPT !.pcl = "evalUse"]), cycleHit)
  /\ UNCHANGED <<cache, loads, nextId, work>>
  /\ UNCHANGED evaluated
  /\ UNCHANGED exceptLoader

\* evaluator.ts 388-430 and 87-89, loader.ts 143-146
EvalUseReturn ==
  /\ Running("evalUse") /\ ret # NoRet
  /\ IF ~ret.ok
     THEN /\ cache' = cacheDelete(cache, Top.name)
          /\ evaluated' = [evaluated EXCEPT ![Top.id] = "failed"]
          /\ Return(RetError(Top.name, "runtime", << >>))
     ELSE /\ frames' = SetTop([Top EXCEPT !.pcl = "eval", !.i = @ + 1])
          /\ ret' = NoRet
          /\ UNCHANGED <<cache, loadingStack, hist, evaluated>>
  /\ UNCHANGED <<called, loads, nextId, work, cycleHit>>
  /\ UNCHANGED exceptLoader

\* loader.ts 141-148: Eval(program) returns
EvalEnd ==
  /\ Running("eval") /\ Top.i > Len(Top.uses)
  /\ evaluated' = [evaluated EXCEPT ![Top.id] = IF Top.fault = "eval" THEN "failed" ELSE "done"]
  /\ IF evalFailed(Top.fault)
     THEN /\ cache' = cacheDelete(cache, Top.name)
          /\ Return(RetError(Top.name, "runtime", << >>))
     ELSE /\ Return(RetModule(Top.name, Top.id))
          /\ UNCHANGED cache
  /\ UNCHANGED <<called, loads, nextId, work, cycleHit>>
  /\ UNCHANGED exceptLoader

InitLoader ==
  /\ cache = << >>
  /\ loadingStack = << >>
  /\ frames = << >>
  /\ ret = NoRet
  /\ called = ""
  /\ loads = 0
  /\ nextId = 1
  /\ work = [m \in Modules |-> [reads |-> 0, checks |-> 0, evals |-> 0]]
  /\ hist = [m \in Modules |-> [okId |-> 0, last |-> "none"]]
  /\ cycleHit = FALSE
  /\ evaluated = << >>

(***************************************************************************)
(* Properties of the loader, checked under SpecLoader.                     *)
(***************************************************************************)
Loaded(m) == hist[m].okId # 0

\* load(m), called from the top or from a `use`
LoadCall == (\E m \in Modules : TopLoad(m)) \/ CheckUse \/ EvalUse

CachedForGood ==
  /\ \A m \in Modules : Loaded(m) => cacheHas(cache, m) /\ cache[m] = hist[m].okId
  /\ (ret # NoRet /\ Loaded(ret.name)) => ret.ok /\ ret.id = hist[ret.name].okId
  /\ \A m \in UserModules :
       (Loaded(m) /\ work[m].reads = 1) => work[m].checks = 1 /\ work[m].evals = 1

NoMoreWork == \A m \in Modules : Loaded(m) => work'[m] = work[m]

CycleNamed ==
  /\ ret.kind = "cycle" =>
       /\ ret.name \in Elems(loadingStack)
       /\ ret.chain = loadingStack \o <<ret.name>>
       /\ ~ret.ok
  /\ (frames = << >> /\ ret # NoRet /\ cycleHit) => ~ret.ok
  /\ Len(loadingStack) = Len(frames)
  /\ \A i \in DOMAIN frames : loadingStack[i] = frames[i].name
  /\ \A i, j \in DOMAIN loadingStack : loadingStack[i] = loadingStack[j] => i = j

CycleCall ==
  (LoadCall /\ called' \in Elems(loadingStack)) =>
    /\ ret'.kind = "cycle" /\ ret'.name = called'
    /\ work' = work /\ cache' = cache
    /\ Len(frames') = Len(frames) /\ loadingStack' = loadingStack

FailedUncached == (ret # NoRet /\ ~ret.ok) => ~cacheHas(cache, ret.name)

LoadsAgain ==
  (LoadCall /\ hist[called'].last = "err" /\ called' \notin Elems(loadingStack)) =>
    /\ ret' = NoRet
    /\ frames'[Len(frames')] = Frame(called')
    /\ Len(frames') = Len(frames) + 1

\* C6: when load(m) returns an error m is not in the cache, and the next
\* load(m) made with m off the loading stack starts a full load.
ThmC6 == [](FailedUncached) /\ [][LoadsAgain]_vars

WitC6 ==
  /\ loads = 2 /\ Len(frames) = 1 /\ frames[1].name = "a" /\ frames[1].pcl = "eval"
  /\ work["a"].evals = 2 /\ hist["a"].last = "err"

StackIsActivations ==
  /\ Len(loadingStack) = Len(frames)
  /\ \A i \in DOMAIN frames : loadingStack[i] = frames[i].name
  /\ \A i, j \in DOMAIN loadingStack : loadingStack[i] = loadingStack[j] => i = j
  /\ frames = << >> => loadingStack = << >>

StackRestored ==
  /\ (LoadCall /\ ret' # NoRet) => loadingStack' = loadingStack
  /\ Len(frames') < Len(frames) =>
       /\ ret'.name = loadingStack[Len(loadingStack)]
       /\ loadingStack' = Front(loadingStack)

\* C11: the loading stack is the list of the modules whose load is in
\* progress, each once: a load that answers at once leaves it alone, a load
\* that pushed its module pops it when it returns, whatever it returns, and
\* with no load in progress the stack is empty.
ThmC11 == [](StackIsActivations) /\ [][StackRestored]_vars

WitC11 ==
  /\ ret # NoRet /\ ret.name = "b" /\ ret.kind = "runtime"
  /\ loadingStack = <<"a">> /\ Len(frames) = 1 /\ frames[1].pcl = "checkUse"

Evaluating(f) == f.pcl \in {"eval", "evalUse"}

Gated ==
  /\ \A i \in DOMAIN frames : Evaluating(frames[i]) <=> frames[i].id # 0
  /\ \A i \in DOMAIN frames : Evaluating(frames[i]) => frames[i].fault # "type"
  /\ \A m \in UserModules : work[m].evals <= work[m].checks /\ work[m].checks <= work[m].reads
  /\ (ret.kind \in {"read", "parse", "type"}) => ~cacheHas(cache, ret.name)

GatedSteps ==
  \A m \in UserModules :
    /\ work'[m].checks # work[m].checks =>
         /\ Running("start") /\ Top.name = m
         /\ ret' = NoRet /\ frames'[Len(frames')].pcl = "check"
    /\ work'[m].evals # work[m].evals =>
         /\ Running("check") /\ Top.name = m
         /\ Top.i > Len(Top.uses) /\ Top.fault # "type"
         /\ work'[m].evals = work[m].evals + 1
    /\ (ret' # ret /\ ret'.name = m /\ ret'.kind \in {"read", "parse", "type"}) =>
         /\ Top.name = m /\ Top.id = 0
         /\ work'[m].evals = work[m].evals

\* C12: the type checker starts on a module only when its file was read and
\* parsed without errors, the evaluator starts only when the checker has
\* gone through all of the program without an error, and a load that ends
\* with a read, parse or type error has evaluated nothing of the module.
ThmC12 == [](Gated) /\ [][GatedSteps]_vars

WitC12 ==
  /\ ret # NoRet /\ ret.name = "a" /\ ret.kind = "type" /\ frames = << >>
  /\ work["a"] = [reads |-> 1, checks |-> 1, evals |-> 0]
  /\ work["b"].evals = 1

UsedFirst ==
  /\ \A i \in DOMAIN frames : Evaluating(frames[i]) => i = Len(frames)
  /\ (ret # NoRet /\ ret.ok) =>
       /\ ret.name \notin Elems(loadingStack)
       /\ cacheHas(cache, ret.name)
       /\ ret.name \in UserModules => work[ret.name].evals >= 1

UsedFirstSteps ==
  /\ (Len(frames') > Len(frames) /\ frames # << >>) => Top.pcl = "check"
  /\ (ret' # ret /\ ret'.ok /\ ret'.name \in UserModules /\ Len(frames') < Len(frames)) =>
       /\ Top.pcl = "eval" /\ Top.i > Len(Top.uses) /\ Top.name = ret'.name

Names == {"p", "q"}

Kinds == {"undefined", "let", "variant", "record"}

Headers == {"none", "plain", "exposing"}

\* parser parseModuleStatement (part_008 268-310): the node's exposing list;
\* `module M;` yields the empty list
parseModuleStatement(header, exposing) == IF header = "exposing" THEN exposing ELSE {}

\* exposedNames of M's environments after check / Eval of M's program:
\* typechecker.ts 406-408 and 420-424, checkStatements.ts 170-174,
\* evaluator.ts 79-81 and 380-384.  The header statement is processed only
\* when it is there; it sets exposedNames to the set of the node's list.
exposedNames(header, exposing) ==
  IF header = "none" THEN [defined |-> FALSE, names |-> {}]
  ELSE [defined |-> TRUE, names |-> parseModuleStatement(header, exposing)]

\* `exposedNames && !exposedNames.has(name)`
notExposed(x, name) == x.defined /\ name \notin x.names

\* checkDeclarations.ts 54, 232, 251 and checkStatements.ts 164: M's typeEnv store
typeNames(kinds) == {n \in DOMAIN kinds : kinds[n] # "undefined"}

\* checkDeclarations.ts 57: M's typeEnv.constructors
constructorNames(kinds) == {n \in DOMAIN kinds : kinds[n] = "record"}

\* evaluator.ts 451, 525: M's evalEnv store (a variant is only in variantToSumType, 439)
evalNames(kinds) == {n \in DOMAIN kinds : kinds[n] \in {"let", "record"}}

UseResult(err, bound) == [err |-> err, bound |-> bound]

\* An import loop that binds the name before it asks whether it is exposed.
RECURSIVE checkUseNamesBindFirst(_, _, _, _)
checkUseNamesBindFirst(M, names, i, bound) ==
  IF i > Len(names) THEN UseResult("ok", bound)
  ELSE IF names[i] \notin typeNames(M.kinds) \cup constructorNames(M.kinds)
  THEN UseResult("not found in module", bound)
  ELSE IF notExposed(exposedNames(M.header, M.exposing), names[i])
  THEN UseResult("is not exposed", bound \cup {names[i]})
  ELSE checkUseNamesBindFirst(M, names, i + 1, bound \cup {names[i]})

\* checkStatements.ts 199-228: the by-name loop of checkUseStatement (the same
\* tests in the same order as typechecker.ts 434-464)
RECURSIVE checkUseNames(_, _, _, _)
checkUseNames(M, names, i, bound) ==
  IF i > Len(names) THEN UseResult("ok", bound)
  ELSE IF notExposed(exposedNames(M.header, M.exposing), names[i])
  THEN UseResult("is not exposed", bound)
  ELSE IF names[i] \notin typeNames(M.kinds) \cup constructorNames(M.kinds)
  THEN UseResult("not found in module", bound)
  ELSE checkUseNames(M, names, i + 1, bound \cup {names[i]})

\* evaluator.ts 403-428: the by-name loop of Eval(UseStatement)
RECURSIVE evalUseNames(_, _, _, _)
evalUseNames(M, names, i, bound) ==
  IF i > Len(names) THEN UseResult("ok", bound)
  ELSE IF names[i] \notin evalNames(M.kinds)
  THEN IF names[i] \in typeNames(M.kinds)
       THEN evalUseNames(M, names, i + 1, bound)
       ELSE UseResult("not found in module", bound)
  ELSE IF notExposed(exposedNames(M.header, M.exposing), names[i])
  THEN UseResult("is not exposed", bound)
  ELSE evalUseNames(M, names, i + 1, bound \cup {names[i]})

\* checkExpressions.ts 211-226: M.n in the type checker
checkMemberAccessExpression(M, n) ==
  IF n \notin typeNames(M.kinds) THEN "not found in module"
  ELSE IF notExposed(exposedNames(M.header, M.exposing), n) THEN "is not exposed"
  ELSE "ok"

\* evaluator.ts 679-695: M.n on a Module value
evalMemberAccess(M, n) ==
  IF n \notin evalNames(M.kinds) THEN "not found in module"
  ELSE IF notExposed(exposedNames(M.header, M.exposing), n) THEN "is not exposed"
  ELSE "ok"

\* checkStatements.ts 176-231 followed, for `use M; M.n`, by the member access
checkImporter(M, imp) ==
  IF imp.form = "names" THEN checkUseNames(M, imp.names, 1, {})
  ELSE UseResult(checkMemberAccessExpression(M, imp.names[1]), {"M"})

\* evaluator.ts 385-431 followed, for `use M; M.n`, by the member access
evalImporter(M, imp) ==
  IF imp.form = "names" THEN evalUseNames(M, imp.names, 1, {})
  ELSE UseResult(evalMemberAccess(M, imp.names[1]), {"M"})

ImportLists == {q \in SeqsUpTo(Names, 2) : q # << >> /\ Cardinality(Elems(q)) = Len(q)}

InitUse ==
  /\ \E header \in Headers : \E kinds \in [Names -> Kinds] :
       \E exposing \in (IF header = "exposing" THEN SUBSET Names ELSE {{}}) :
         exporter = [header |-> header, exposing |-> exposing, kinds |-> kinds]
  /\ \E form \in {"names", "member"} :
       \E names \in (IF form = "names" THEN ImportLists ELSE {<<n>> : n \in Names}) :
         importer = [form |-> form, names |-> names]
  /\ phase = "check"
  /\ typeBound = {}
  /\ evalBound = {}
  /\ outcome = [check |-> "pending", eval |-> "pending"]

\* loader.ts 129-132: check(program) of the importer
CheckImporter ==
  /\ phase = "check"
  /\ LET r == checkImporter(exporter, importer) IN
     /\ typeBound' = r.bound
     /\ outcome' = [outcome EXCEPT !.check = r.err]
     /\ phase' = IF r.err = "ok" THEN "eval" ELSE "done"
  /\ UNCHANGED <<exporter, importer, evalBound>>
  /\ UNCHANGED exceptUse

\* loader.ts 141-148: Eval(program) of the importer
EvalImporter ==
  /\ phase = "eval"
  /\ LET r == evalImporter(exporter, importer) IN
     /\ evalBound' = r.bound
     /\ outcome' = [outcome EXCEPT !.eval = r.err]
     /\ phase' = "done"
  /\ UNCHANGED <<exporter, importer, typeBound>>
  /\ UNCHANGED exceptUse

IdleUse ==
  /\ exporter = [header |-> "none", exposing |-> {}, kinds |-> [n \in Names |-> "undefined"]]
  /\ importer = [form |-> "names", names |-> <<"p">>]
  /\ phase = "done"
  /\ typeBound = {}
  /\ evalBound = {}
  /\ outcome = [check |-> "pending", eval |-> "pending"]

(***************************************************************************)
(* Properties of exposure, checked under SpecUse.                          *)
(***************************************************************************)
Imported == Elems(importer.names)

DefinedIn(M) == typeNames(M.kinds)

\* C7: when M has no header or the header `module M;`, importing names that
\* M defines, or accessing one as M.n, passes the type checker and the
\* evaluator, and a by-name import binds the names.
ClaimC7 ==
  (/\ phase = "done"
   /\ exporter.header \in {"none", "plain"}
   /\ Imported \subseteq DefinedIn(exporter))
  => /\ outcome.check = "ok"
     /\ outcome.eval = "ok"
     /\ importer.form = "names" => Imported \subseteq typeBound

\* the header of M carries an exposing list that does not contain n
Unlisted(n) == exporter.header = "exposing" /\ n \notin exporter.exposing

\* the first i names of the import are exposed and defined in M
Passes(i) ==
  \A j \in 1..i :
    /\ ~Unlisted(importer.names[j])
    /\ importer.names[j] \in DefinedIn(exporter)

ImportFails ==
  (phase = "done" /\ importer.form = "names") =>
    \A i \in DOMAIN importer.names :
      Unlisted(importer.names[i]) =>
        /\ outcome.check # "ok"
        /\ outcome.eval = "pending"
        /\ importer.names[i] \notin typeBound \cup evalBound
        /\ Passes(i - 1) => outcome.check = "is not exposed"

MemberFails ==
  (phase = "done" /\ importer.form = "member" /\ Unlisted(importer.names[1])) =>
    /\ outcome.check # "ok"
    /\ outcome.eval = "pending"
    /\ importer.names[1] \in DefinedIn(exporter) => outcome.check = "is not exposed"

ModuleValueFails ==
  \A n \in Names :
    Unlisted(n) =>
      /\ evalMemberAccess(exporter, n) # "ok"
      /\ n \in evalNames(exporter.kinds) => evalMemberAccess(exporter, n) = "is not exposed"

BoundOnlyIfExposed ==
  \A n \in Names :
    /\ n \in typeBound =>
         /\ importer.form = "names" /\ n \in Imported
         /\ ~Unlisted(n)
         /\ n \in typeNames(exporter.kinds) \cup constructorNames(exporter.kinds)
    /\ n \in evalBound =>
         /\ importer.form = "names" /\ n \in Imported
         /\ ~Unlisted(n)
         /\ n \in evalNames(exporter.kinds)

\* C8: when the exposing list of M's header does not contain n, `use M (..n..)`
\* fails in the type checker, with 'is not exposed' when the names before n
\* pass, and is not evaluated; M.n fails too, with 'is not exposed' when M
\* defines n; n is not bound in the importer; and a by-name import binds a
\* name only if the list (when there is one) holds it and M's environment
\* has it.
ThmC8 == ImportFails /\ MemberFails /\ ModuleValueFails /\ BoundOnlyIfExposed

WitC8 ==
  /\ phase = "done" /\ importer = [form |-> "names", names |-> <<"p", "q">>]
  /\ exporter.header = "exposing" /\ exporter.exposing = {"p"}
  /\ exporter.kinds = [n \in Names |-> "let"]
  /\ outcome.check = "is not exposed" /\ typeBound = {"p"} /\ evalBound = {}

\* environment.ts 16-28, loader.ts 134-136: the variantToSumType map of the
\* importer's own environment; Eval of `use` adds nothing to it
importerVariants == {"Ok", "Err", "Some", "None"}

\* evaluator.ts 280-298: evalIdentifier of name in the importer, whose
\* environment binds the names in bound
evalImportedIdentifier(name, bound) ==
  IF name \in bound THEN "ok"
  ELSE IF name \in BuiltinNames THEN "ok"
  ELSE IF name \in importerVariants THEN "ok"
  ELSE "identifier not found"

UseEvaluated ==
  /\ phase = "done" /\ importer.form = "names"
  /\ outcome.check = "ok" /\ outcome.eval = "ok"

\* C28: every name of `use M (...)` that the type checker has accepted, a
\* variant constructor of a sum type of M among them, evaluates in the
\* importer, after the use statement has been evaluated, without the error
\* 'identifier not found'.
ClaimC28 ==
  UseEvaluated => \A n \in Imported : evalImportedIdentifier(n, evalBound) = "ok"

\* The same for the names that are not variants of a sum type of M.
ResolvableUnlessVariant ==
  UseEvaluated =>
    \A n \in Imported :
      exporter.kinds[n] # "variant" => evalImportedIdentifier(n, evalBound) = "ok"

(***************************************************************************)
(* Part IV - types, substitute and unify (src/syntax/type.ts,              *)
(* src/interpreter/typechecker/utils.ts).  A type is [k, name, args]: k is *)
(* its TypeKind, name the name of a type variable or of a sum, args the    *)
(* component types (element; key, value; type arguments; parameters        *)
(* followed by the return type).  Types of equal structure stand for one   *)
(* object.                                                                 *)
(***************************************************************************)
Type(k, name, args) == [k |-> k, name |-> name, args |-> args]

INTEGER_TYPE == Type("INTEGER", "", << >>)

DOUBLE_TYPE == Type("DOUBLE", "", << >>)

BOOLEAN_TYPE == Type("BOOLEAN", "", << >>)

STRING_TYPE == Type("STRING", "", << >>)

NULL_TYPE == Type("NULL", "", << >>)

ANY_TYPE == Type("ANY", "", << >>)

ErrorType(msg) == Type("ERROR", msg, << >>)

TypeVariable(name) == Type("TYPE_VARIABLE", name, << >>)

ArrayType(elementType) == Type("ARRAY", "", <<elementType>>)

HashType(keyType, valueType) == Type("HASH", "", <<keyType, valueType>>)

SumType(name, typeArguments) == Type("SUM_TYPE", name, typeArguments)

FunctionType(parameters, returnType) == Type("FUNCTION", "", Append(parameters, returnType))

\* substitutions.get(name) of a name the map does not hold
NoType == Type("none", "", << >>)

TypeVariableNames == {"T", "U"}

\* utils.ts 79-168; memo holds the types whose substitution is in progress
RECURSIVE substitute(_, _, _)
substitute(type, subs, memo) ==
  IF type \in memo THEN type
  ELSE IF type.k = "TYPE_VARIABLE"
  THEN IF subs[type.name] # NoType
       THEN substitute(subs[type.name], subs, memo \cup {type})
       ELSE type
  ELSE IF type.k \in {"ARRAY", "FUNCTION", "SUM_TYPE"}
  THEN [type EXCEPT !.args =
          [i \in DOMAIN type.args |-> substitute(type.args[i], subs, memo \cup {type})]]
  ELSE type

\* A numeric rule that works both ways, as the one of isSameType.
numericAcceptsBoth(k1, k2) ==
  (k1 = "DOUBLE" /\ k2 = "INTEGER") \/ (k1 = "INTEGER" /\ k2 = "DOUBLE")

\* utils.ts 203-205
numericAccepts(k1, k2) == k1 = "DOUBLE" /\ k2 = "INTEGER"

UnifyResult(ok, subs) == [ok |-> ok, subs |-> subs]

\* utils.ts 170-316
RECURSIVE unify(_, _, _)
RECURSIVE unifyList(_, _, _, _)
unifyList(list1, list2, i, subs) ==
  IF i > Len(list1) THEN UnifyResult(TRUE, subs)
  ELSE LET r == unify(list1[i], list2[i], subs) IN
       IF ~r.ok THEN r ELSE unifyList(list1, list2, i + 1, r.subs)

unify(a, b, subs) ==
  LET finalT1 == substitute(a, subs, {})
      finalT2 == substitute(b, subs, {})
  IN
  IF finalT1.k = "ANY" \/ finalT2.k = "ANY" THEN UnifyResult(TRUE, subs)
  ELSE IF finalT1.k = "TYPE_VARIABLE"
  THEN IF subs[finalT1.name] # NoType
       THEN unify(subs[finalT1.name], finalT2, subs)
       ELSE IF finalT2.k = "TYPE_VARIABLE" /\ finalT2.name = finalT1.name
       THEN UnifyResult(TRUE, subs)
       ELSE UnifyResult(TRUE, [subs EXCEPT ![finalT1.name] = finalT2])
  ELSE IF finalT2.k = "TYPE_VARIABLE" THEN unify(finalT2, finalT1, subs)
  ELSE IF numericAccepts(finalT1.k, finalT2.k) THEN UnifyResult(TRUE, subs)
  ELSE IF finalT1.k # finalT2.k THEN UnifyResult(FALSE, subs)
  ELSE IF finalT1.k \in {"ARRAY", "HASH"}
  THEN unifyList(finalT1.args, finalT2.args, 1, subs)
  ELSE IF finalT1.k = "SUM_TYPE"
  THEN IF finalT1.name # finalT2.name \/ Len(finalT1.args) # Len(finalT2.args)
       THEN UnifyResult(FALSE, subs)
       ELSE unifyList(finalT1.args, finalT2.args, 1, subs)
  ELSE IF finalT1.k = "FUNCTION"
  THEN IF Len(finalT1.args) # Len(finalT2.args)
       THEN UnifyResult(FALSE, subs)
       ELSE unifyList(finalT1.args, finalT2.args, 1, subs)
  ELSE UnifyResult(TRUE, subs)

BaseTypes ==
  {INTEGER_TYPE, DOUBLE_TYPE, BOOLEAN_TYPE, ANY_TYPE} \cup {TypeVariable(n) : n \in TypeVariableNames}

ArgTypes == {INTEGER_TYPE, DOUBLE_TYPE, TypeVariable("T")}

FlatTypes ==
  BaseTypes
  \cup {HashType(x, y) : x, y \in ArgTypes}
  \cup {SumType("Result", <<x, y>>) : x, y \in ArgTypes}
  \cup {SumType("Option", <<x>>) : x \in ArgTypes}
  \cup {FunctionType(<<x>>, y) : x, y \in ArgTypes}

RECURSIVE NestedTypes(_)
NestedTypes(n) ==
  IF n = 0 THEN FlatTypes
  ELSE FlatTypes \cup {ArrayType(x) : x \in NestedTypes(n - 1)}

Types == NestedTypes(MaxNest)

\* the maps unify is called with: empty, or T bound to a type without variables
Substitutions ==
  {[n \in TypeVariableNames |-> IF n = "T" THEN x ELSE NoType] :
     x \in {NoType, INTEGER_TYPE, DOUBLE_TYPE, BOOLEAN_TYPE}}

InitUnify ==
  /\ t1 \in Types
  /\ t2 \in Types
  /\ substitutions \in Substitutions
  /\ unified = "pending"

\* the call unify(t1, t2, substitutions)
Unify ==
  /\ unified = "pending"
  /\ LET r == unify(t1, t2, substitutions) IN
     /\ unified' = (IF r.ok THEN "true" ELSE "false")
     /\ substitutions' = r.subs
  /\ UNCHANGED <<t1, t2>>
  /\ UNCHANGED exceptUnify

IdleUnify ==
  /\ t1 = NULL_TYPE
  /\ t2 = NULL_TYPE
  /\ substitutions = [n \in TypeVariableNames |-> NoType]
  /\ unified = "idle"

\* C14: when unify(t1, t2, s) has returned true, substitute under the map it
\* left gives structurally equal types for t1 and t2.
ClaimC14 ==
  unified = "true" => substitute(t1, substitutions, {}) = substitute(t2, substitutions, {})

Plain(type) == type.k \notin {"ANY", "TYPE_VARIABLE"}

\* C15: unify(Double, Integer) succeeds, unify(Integer, Double) fails, and
\* any other two types of different kinds, neither of them Any or a type
\* variable, fail to unify.
ThmC15 ==
  unified \in {"true", "false"} =>
    /\ (t1 = DOUBLE_TYPE /\ t2 = INTEGER_TYPE) => unified = "true"
    /\ (t1 = INTEGER_TYPE /\ t2 = DOUBLE_TYPE) => unified = "false"
    /\ (/\ Plain(t1) /\ Plain(t2) /\ t1.k # t2.k
        /\ ~(t1.k = "DOUBLE" /\ t2.k = "INTEGER")) => unified = "false"

WitC15 ==
  /\ t1 = INTEGER_TYPE /\ t2 = DOUBLE_TYPE /\ unified = "false"
  /\ substitutions["T"] = NoType

(***************************************************************************)
(* Part V - the type checker (src/interpreter/typechecker/checkers).       *)
(* tenv is the chain of TypeEnvironments that check has created on its way *)
(* down to the node: tenv[1] is the global one, each later one has the one *)
(* before it as its outer.                                                 *)
(***************************************************************************)
\* checked before check has returned
Unchecked == Type("unchecked", "", << >>)

\* the names the environments bind: a variable and a sum type
Idents == {"x", "S"}

TypeBinding(type, isMutable) == [type |-> type, isMutable |-> isMutable]

\* store.get(name) of a name the store does not hold
NoTypeBinding == TypeBinding(NoType, FALSE)

\* new TypeEnvironment(outer), with outer the innermost of chain (null when
\* chain is empty): the chain with the new environment at its end
TypeEnvironment(chain) ==
  Append(chain,
         [store |-> [n \in Idents |-> NoTypeBinding],
          currentFunctionReturnType |->
            IF chain = << >> THEN NoType
            ELSE chain[Len(chain)].currentFunctionReturnType])

\* the environment check is working in
Innermost(chain) == chain[Len(chain)]

\* checkFunctionLiteral up to the check of the body: the function's
\* environment, which records the return type when the literal declares one
\* (returnType = NoType: the literal declares none)
functionEnv(chain, returnType) ==
  LET inner == TypeEnvironment(chain) IN
  IF returnType # NoType
  THEN [inner EXCEPT ![Len(inner)].currentFunctionReturnType = returnType]
  ELSE inner

NoSubstitutions == [n \in TypeVariableNames |-> NoType]

\* checkTryExpression on `left?`, leftType the type check gave for left
checkTryExpression(leftType, env) ==
  IF leftType.k = "ERROR" THEN leftType
  ELSE IF leftType.k # "SUM_TYPE" \/ leftType.name # "Result"
  THEN ErrorType("operator '?' can only be used on a Result type")
  ELSE IF Len(leftType.args) < 2
  THEN ErrorType("Could not determine the types of the Result.")
  ELSE LET funcReturnType == env.currentFunctionReturnType IN
       IF \/ funcReturnType = NoType
          \/ funcReturnType.k # "SUM_TYPE"
          \/ funcReturnType.name # "Result"
       THEN ErrorType("operator '?' can only be used inside a function that returns a Result type")
       ELSE IF ~unify(funcReturnType.args[2], leftType.args[2], NoSubstitutions).ok
       THEN ErrorType("cannot propagate error")
       ELSE leftType.args[1]

Result(okType, errType) == SumType("Result", <<okType, errType>>)

\* what a function literal declares as its return type; NoType: nothing
ReturnTypes ==
  {NoType, INTEGER_TYPE, Result(INTEGER_TYPE, STRING_TYPE), Result(INTEGER_TYPE, BOOLEAN_TYPE)}

\* the types of the operand of `?`
LeftTypes == {INTEGER_TYPE, Result(INTEGER_TYPE, STRING_TYPE), Result(INTEGER_TYPE, BOOLEAN_TYPE)}

\* `left?` inside the function literals fns, the outermost first; no
\* function literal: `left?` at the top level of the module
TryAsts ==
  {[fam |-> "try", fns |-> fs, left |-> l] : fs \in SeqsUpTo(ReturnTypes, MaxFns), l \in LeftTypes}

InitTry ==
  /\ ast \in TryAsts
  /\ tenv = TypeEnvironment(<< >>)
  /\ checked = Unchecked
  /\ at = 0

\* check reaches the next function literal around the `?` expression
CheckFunctionLiteral ==
  /\ ast.fam = "try"
  /\ checked = Unchecked
  /\ Len(tenv) - 1 < Len(ast.fns)
  /\ tenv' = functionEnv(tenv, ast.fns[Len(tenv)])
  /\ UNCHANGED <<ast, checked, at>>
  /\ UNCHANGED exceptCheck

\* check reaches the `?` expression
CheckTryExpression ==
  /\ ast.fam = "try"
  /\ checked = Unchecked
  /\ Len(tenv) - 1 = Len(ast.fns)
  /\ checked' = checkTryExpression(ast.left, Innermost(tenv))
  /\ UNCHANGED <<ast, tenv, at>>
  /\ UNCHANGED exceptCheck

NoAst == [fam |-> "none"]

IdleCheck ==
  /\ ast = NoAst
  /\ tenv = TypeEnvironment(<< >>)
  /\ checked = Unchecked
  /\ at = 0

Accepted == checked # Unchecked /\ checked.k # "ERROR"

\* the function literal immediately around the `?` declares Result<_, F>,
\* and F unifies with the error type of the operand
EnclosingReturnsResult ==
  /\ ast.fns # << >>
  /\ LET declared == ast.fns[Len(ast.fns)] IN
     /\ declared.k = "SUM_TYPE" /\ declared.name = "Result"
     /\ ast.left.k = "SUM_TYPE" /\ ast.left.name = "Result"
     /\ unify(declared.args[2], ast.left.args[2], NoSubstitutions).ok

\* C16: the type checker accepts `e?` only when the function literal
\* immediately around it declares the return type Result<_, F> with F
\* unifiable with the error type of e; at the top level, or in a function
\* that declares no return type or another one, also when nested in a
\* function returning Result, `e?` is an error.
ClaimC16 == (ast.fam = "try" /\ Accepted) => EnclosingReturnsResult

(***************************************************************************)
(* match on a scrutinee of the sum type S (checkControlFlow.ts 319-490).   *)
(* The node gives the variants of the definition of S, whether the         *)
(* environment binds S, the registered active patterns and the arms, each  *)
(* a pattern and the type of its body.  Variants and patterns carry no     *)
(* parameters.                                                             *)
(***************************************************************************)
\* TypeEnvironment.get: the binding of name in the innermost environment of
\* chain that holds one
RECURSIVE typeGet(_, _)
typeGet(chain, name) ==
  IF chain = << >> THEN NoTypeBinding
  ELSE IF Innermost(chain).store[name] # NoTypeBinding
  THEN Innermost(chain).store[name]
  ELSE typeGet(Front(chain), name)

\* TypeEnvironment.set on the innermost environment of chain
typeSet(chain, name, type, isMutable) ==
  [chain EXCEPT ![Len(chain)].store[name] = TypeBinding(type, isMutable)]

WildcardPattern == [kind |-> "Wildcard", name |-> "_"]

VariantPattern(caseName) == [kind |-> "Variant", name |-> caseName]

IdentifierPattern(name) == [kind |-> "Identifier", name |-> name]

\* the type of the scrutinee
ScrutineeType == SumType("S", << >>)

\* the active patterns registered in the environment: the case names of one
\* declaration (none: nothing is registered) and the type of its input
NoActivePatterns == [cases |-> {}, input |-> NULL_TYPE]

\* env.getActivePatternType(caseName): a function from the input to a sum
\* whose variants are the case names; NoType when caseName is not registered
getActivePatternType(registry, caseName) ==
  IF caseName \in registry.cases
  THEN FunctionType(<<registry.input>>, SumType("Cases", << >>))
  ELSE NoType

\* the pattern part of one arm (339-436): the error it returns, or NoType
checkArmPattern(m, chain, pattern) ==
  LET activePatternType ==
        IF pattern.kind = "Variant" THEN getActivePatternType(m.registry, pattern.name)
        ELSE NoType
      armProcessed == pattern.kind = "Wildcard" \/ activePatternType # NoType
  IN
  IF activePatternType # NoType
  THEN IF ~unify(activePatternType.args[1], ScrutineeType, NoSubstitutions).ok
       THEN ErrorType("Pattern expects an input of another type")
       ELSE NoType
  ELSE IF ~armProcessed
  THEN IF typeGet(chain, ScrutineeType.name).type.k # "SUM_TYPE"
       THEN ErrorType("Could not find definition for type")
       ELSE IF pattern.kind = "Variant" /\ pattern.name \notin m.variants
       THEN ErrorType("has no variant named")
       ELSE NoType
  ELSE NoType

\* the loop over the arms (335-451) from arm i on: the error it returns, or
\* firstArmType as the loop leaves it (NoType: undefined)
RECURSIVE checkArms(_, _, _, _)
checkArms(m, chain, i, firstArmType) ==
  IF i > Len(m.arms) THEN firstArmType
  ELSE LET arm == m.arms[i]
           patternError == checkArmPattern(m, chain, arm.pattern)
       IN
       IF patternError # NoType THEN patternError
       ELSE IF firstArmType = NoType THEN checkArms(m, chain, i + 1, arm.body)
       ELSE IF ~unify(firstArmType, arm.body, NoSubstitutions).ok
       THEN ErrorType("match arms must have the same type")
       ELSE checkArms(m, chain, i + 1, firstArmType)

\* 457-466: the names of the variant patterns before the first wildcard
RECURSIVE coveredVariants(_, _)
coveredVariants(arms, i) ==
  IF i > Len(arms) \/ arms[i].pattern.kind = "Wildcard" THEN {}
  ELSE (IF arms[i].pattern.kind = "Variant" THEN {arms[i].pattern.name} ELSE {})
       \cup coveredVariants(arms, i + 1)

hasWildcard(arms) == \E i \in DOMAIN arms : arms[i].pattern.kind = "Wildcard"

\* 319-490
checkMatchExpression(m, chain) ==
  LET armsType == checkArms(m, chain, 1, NoType) IN
  IF armsType.k = "ERROR" THEN armsType
  ELSE IF /\ typeGet(chain, ScrutineeType.name).type.k = "SUM_TYPE"
          /\ ~hasWildcard(m.arms)
          /\ Cardinality(coveredVariants(m.arms, 1)) < Cardinality(m.variants)
  THEN ErrorType("match is not exhaustive")
  ELSE IF armsType # NoType THEN armsType ELSE NULL_TYPE

VariantNames == {"A", "B"}

CaseNames == {"Even", "Odd"}

Patterns ==
  {WildcardPattern, IdentifierPattern("x")}
  \cup {VariantPattern(n) : n \in VariantNames \cup CaseNames}

Arms == {[pattern |-> p, body |-> b] : p \in Patterns, b \in {INTEGER_TYPE, STRING_TYPE}}

Registries ==
  {NoActivePatterns}
  \cup {[cases |-> CaseNames, input |-> t] : t \in {ScrutineeType, INTEGER_TYPE}}

MatchAsts ==
  {[fam |-> "match", variants |-> vs, registry |-> r, arms |-> as] :
     vs \in (SUBSET VariantNames) \ {{}}, r \in Registries, as \in SeqsUpTo(Arms, MaxArms)}

\* the scrutinee's sum type S is declared in the module under check, or
\* is the type of an imported value and not bound by name
InitMatch ==
  /\ ast \in MatchAsts
  /\ \E declared \in BOOLEAN :
       tenv = IF declared
              THEN typeSet(TypeEnvironment(<< >>), ScrutineeType.name, ScrutineeType, FALSE)
              ELSE TypeEnvironment(<< >>)
  /\ checked = Unchecked
  /\ at = 0

CheckMatchExpression ==
  /\ ast.fam = "match"
  /\ checked = Unchecked
  /\ checked' = checkMatchExpression(ast, tenv)
  /\ UNCHANGED <<ast, tenv, at>>
  /\ UNCHANGED exceptCheck

\* the names the variant-pattern arms give
Named == {ast.arms[i].pattern.name : i \in {j \in DOMAIN ast.arms : ast.arms[j].pattern.kind = "Variant"}}

NonExhaustive ==
  /\ ast.fam = "match"
  /\ ~hasWildcard(ast.arms)
  /\ \E v \in ast.variants : v \notin Named

\* C17: a match on a scrutinee of a sum type, with a variant of the sum that
\* no variant-pattern arm names and without a wildcard arm, is never
\* accepted by the type checker.
ClaimC17 == (checked # Unchecked /\ NonExhaustive) => checked.k = "ERROR"

\* The same, for the matches in an environment that binds the sum type and
\* none of whose arms names an active pattern: they get an error, the
\* exhaustiveness one when the arms are well typed.
ExhaustiveWithoutActivePatterns ==
  (/\ checked # Unchecked /\ NonExhaustive
   /\ typeGet(tenv, ScrutineeType.name).type.k = "SUM_TYPE"
   /\ Named \cap ast.registry.cases = {}) =>
    /\ checked.k = "ERROR"
    /\ checkArms(ast, tenv, 1, NoType).k # "ERROR" => checked = ErrorType("match is not exhaustive")

(***************************************************************************)
(* Assignment `x = e` and `x += e` (checkExpressions.ts 401-435) after the *)
(* declarations that bind x on the way to it: `let x`, `let mut x`,        *)
(* `use m (x)`, a function literal with the parameter x or with another    *)
(* parameter, a match arm whose pattern binds x.  A let statement is       *)
(* `let x: annotation = value` (annotation NoType: none) and binds the     *)
(* type of its value; the others bind an Integer.                          *)
(***************************************************************************)
Binders == {"let", "let mut", "use", "parameter", "fn", "pattern"}

AssignAsts ==
  {[fam |-> "assign", binders |-> bs, annotation |-> an, value |-> v, operator |-> op, right |-> r] :
     bs \in SeqsUpTo(Binders, MaxBinders), an \in {NoType, INTEGER_TYPE},
     v \in {INTEGER_TYPE, DOUBLE_TYPE, STRING_TYPE},
     op \in {"=", "+="}, r \in {INTEGER_TYPE, DOUBLE_TYPE, STRING_TYPE}}

InitAssign ==
  /\ ast \in AssignAsts
  /\ tenv = TypeEnvironment(<< >>)
  /\ checked = Unchecked
  /\ at = 0

Binder == ast.binders[at + 1]

AtBinder(kinds) ==
  /\ ast.fam = "assign"
  /\ checked = Unchecked
  /\ at < Len(ast.binders)
  /\ Binder \in kinds

isNumeric(t) == t.k \in {"INTEGER", "DOUBLE"}

\* utils.ts 25-64
RECURSIVE isSameType(_, _)
isSameType(a, b) ==
  IF a.k \in {"ANY", "TYPE_VARIABLE"} \/ b.k \in {"ANY", "TYPE_VARIABLE"} THEN TRUE
  ELSE IF (a.k = "DOUBLE" /\ b.k = "INTEGER") \/ (a.k = "INTEGER" /\ b.k = "DOUBLE") THEN TRUE
  ELSE IF a.k # b.k THEN FALSE
  ELSE IF a = b THEN TRUE
  ELSE IF a.k \in {"ARRAY", "HASH"}
  THEN \A i \in DOMAIN a.args : isSameType(a.args[i], b.args[i])
  ELSE IF a.k = "FUNCTION"
  THEN /\ Len(a.args) = Len(b.args)
       /\ \A i \in DOMAIN a.args : isSameType(a.args[i], b.args[i])
  ELSE FALSE

\* checkLetStatement (checkStatements.ts 76-80, 150-165) on
\* `let x: annotation = value` or `let mut x: annotation = value`; its error
\* ends the check before the assignment
CheckLetStatement ==
  /\ AtBinder({"let", "let mut"})
  /\ IF typeGet(tenv, "x") # NoTypeBinding
     THEN /\ checked' = ErrorType("identifier already declared")
          /\ UNCHANGED <<tenv, at>>
     ELSE IF ast.annotation # NoType /\ ~isSameType(ast.annotation, ast.value)
     THEN /\ checked' = ErrorType("type mismatch: declared type")
          /\ UNCHANGED <<tenv, at>>
     ELSE /\ tenv' = typeSet(tenv, "x", ast.value, Binder = "let mut")
          /\ at' = at + 1
          /\ UNCHANGED checked
  /\ UNCHANGED ast
  /\ UNCHANGED exceptCheck

\* checkUseStatement (checkStatements.ts 199-219) on `use m (x)`, m exposing
\* a binding x
CheckUseStatement ==
  /\ AtBinder({"use"})
  /\ tenv' = typeSet(tenv, "x", INTEGER_TYPE, FALSE)
  /\ at' = at + 1
  /\ UNCHANGED <<ast, checked>>
  /\ UNCHANGED exceptCheck

\* checkFunctionLiteral (checkExpressions.ts 35, 68-95) on a function
\* literal around the assignment, with the parameter x: Integer or without
\* a parameter of that name
CheckParameters ==
  /\ AtBinder({"parameter", "fn"})
  /\ tenv' = IF Binder = "parameter"
             THEN typeSet(functionEnv(tenv, NoType), "x", INTEGER_TYPE, FALSE)
             ELSE functionEnv(tenv, NoType)
  /\ at' = at + 1
  /\ UNCHANGED <<ast, checked>>
  /\ UNCHANGED exceptCheck

\* checkMatchExpression (checkControlFlow.ts 336, 404-422) on an arm around
\* the assignment, whose pattern binds x
CheckArm ==
  /\ AtBinder({"pattern"})
  /\ tenv' = typeSet(TypeEnvironment(tenv), "x", INTEGER_TYPE, FALSE)
  /\ at' = at + 1
  /\ UNCHANGED <<ast, checked>>
  /\ UNCHANGED exceptCheck

\* A test that lets every binding be assigned to.
immutableNever(binding) == FALSE

\* checkExpressions.ts 408
immutable(binding) == ~binding.isMutable

\* checkInfixExpression for the operators = and += with the identifier name
\* on the left (checkExpressions.ts 395-435, typechecker.ts 764-771)
checkAssignment(chain, operator, name, rightType) ==
  LET binding == typeGet(chain, name) IN
  IF binding = NoTypeBinding THEN ErrorType("identifier not found")
  ELSE IF immutable(binding) THEN ErrorType("cannot assign to immutable variable")
  ELSE IF rightType.k = "ERROR" THEN rightType
  ELSE IF operator = "+="
  THEN IF ~isNumeric(binding.type) \/ ~isNumeric(rightType)
       THEN ErrorType("cannot apply operator '+='")
       ELSE rightType
  ELSE IF ~isSameType(binding.type, rightType)
  THEN ErrorType("type mismatch: cannot assign")
  ELSE rightType

CheckAssignment ==
  /\ ast.fam = "assign"
  /\ checked = Unchecked
  /\ at = Len(ast.binders)
  /\ checked' = checkAssignment(tenv, ast.operator, "x", ast.right)
  /\ UNCHANGED <<ast, tenv, at>>
  /\ UNCHANGED exceptCheck

\* the declaration x resolves to at the assignment: the last of the
\* enclosing declarations that binds x ("none": there is none)
RECURSIVE Resolved(_)
Resolved(bs) ==
  IF bs = << >> THEN "none"
  ELSE IF bs[Len(bs)] # "fn" THEN bs[Len(bs)]
  ELSE Resolved(Front(bs))

AssignmentChecked == ast.fam = "assign" /\ at = Len(ast.binders) /\ checked # Unchecked

LetAccepted(i) == i <= at /\ ast.binders[i] \in {"let", "let mut"}

\* the assignment is checked and its target resolves to a mutable binding
\* of the type Integer
IntegerTarget ==
  /\ AssignmentChecked
  /\ typeGet(tenv, "x") # NoTypeBinding
  /\ typeGet(tenv, "x").isMutable
  /\ typeGet(tenv, "x").type = INTEGER_TYPE

\* C29: a Double is never accepted where Integer is declared or expected:
\* the type checker rejects `let x: Integer = d`, and rejects `x = d` and
\* `x += d` for a mutable binding x of type Integer, whenever d has the
\* type Double.
ClaimC29 ==
  ast.fam = "assign" =>
    /\ (ast.annotation = INTEGER_TYPE /\ ast.value = DOUBLE_TYPE) =>
          \A i \in DOMAIN ast.binders : ~LetAccepted(i)
    /\ (IntegerTarget /\ ast.right = DOUBLE_TYPE) => checked.k = "ERROR"

\* What the checker does reject in those positions is a type that is not
\* numeric: a String for a declared Integer, and a String assigned or added
\* to a mutable Integer.
NonNumericRejected ==
  ast.fam = "assign" =>
    /\ (ast.annotation = INTEGER_TYPE /\ ast.value = STRING_TYPE) =>
          \A i \in DOMAIN ast.binders : ~LetAccepted(i)
    /\ (IntegerTarget /\ ast.right = STRING_TYPE) => checked.k = "ERROR"

(***************************************************************************)
(* Array and hash literals (checkExpressions.ts 130-200).  The node gives  *)
(* the types check returns for the elements, or for the keys and values,   *)
(* and the expected type (NoType: none).                                   *)
(***************************************************************************)
\* 130-154
RECURSIVE checkElements(_, _)
checkElements(elements, i) ==
  IF i > Len(elements) THEN ArrayType(elements[1])
  ELSE IF elements[i].k = "ERROR" THEN elements[i]
  ELSE IF ~isSameType(elements[i], elements[1])
  THEN ErrorType("arrays must be homogeneous")
  ELSE checkElements(elements, i + 1)

checkArrayLiteral(elements, expectedType) ==
  IF Len(elements) = 0
  THEN IF expectedType.k = "ARRAY" THEN expectedType
       ELSE ErrorType("cannot infer type of empty array without a type annotation")
  ELSE IF elements[1].k = "ERROR" THEN elements[1]
  ELSE checkElements(elements, 2)

\* 156-200
RECURSIVE checkPairs(_, _)
checkPairs(pairs, i) ==
  IF i > Len(pairs) THEN HashType(pairs[1].key, pairs[1].value)
  ELSE IF pairs[i].key.k = "ERROR" THEN pairs[i].key
  ELSE IF ~isSameType(pairs[i].key, pairs[1].key)
  THEN ErrorType("hash keys must be homogeneous")
  ELSE IF pairs[i].value.k = "ERROR" THEN pairs[i].value
  ELSE IF ~isSameType(pairs[i].value, pairs[1].value)
  THEN ErrorType("hash values must be homogeneous")
  ELSE checkPairs(pairs, i + 1)

checkHashLiteral(pairs, expectedType) ==
  IF Len(pairs) = 0
  THEN IF expectedType.k = "HASH" THEN expectedType
       ELSE ErrorType("cannot infer type of empty hash without a type annotation")
  ELSE IF pairs[1].key.k = "ERROR" THEN pairs[1].key
  ELSE IF pairs[1].key.k \notin {"STRING", "INTEGER", "BOOLEAN"}
  THEN ErrorType("unusable as hash key")
  ELSE IF pairs[1].value.k = "ERROR" THEN pairs[1].value
  ELSE checkPairs(pairs, 2)

ElementTypes ==
  {INTEGER_TYPE, DOUBLE_TYPE, STRING_TYPE, BOOLEAN_TYPE, ArrayType(INTEGER_TYPE), ArrayType(STRING_TYPE)}

KeyTypes == {INTEGER_TYPE, DOUBLE_TYPE, STRING_TYPE, BOOLEAN_TYPE}

ValueTypes == {INTEGER_TYPE, STRING_TYPE, ArrayType(INTEGER_TYPE)}

Pairs == {[key |-> k, value |-> v] : k \in KeyTypes, v \in ValueTypes}

ArrayAsts ==
  {[fam |-> "array", elements |-> es, expected |-> t] :
     es \in SeqsUpTo(ElementTypes, MaxElems), t \in {NoType, ArrayType(INTEGER_TYPE)}}

HashAsts ==
  {[fam |-> "hash", pairs |-> ps, expected |-> t] :
     ps \in SeqsUpTo(Pairs, MaxElems), t \in {NoType, HashType(STRING_TYPE, INTEGER_TYPE)}}

InitLiteral ==
  /\ ast \in ArrayAsts \cup HashAsts
  /\ tenv = TypeEnvironment(<< >>)
  /\ checked = Unchecked
  /\ at = 0

CheckArrayLiteral ==
  /\ ast.fam = "array"
  /\ checked = Unchecked
  /\ checked' = checkArrayLiteral(ast.elements, ast.expected)
  /\ UNCHANGED <<ast, tenv, at>>
  /\ UNCHANGED exceptCheck

CheckHashLiteral ==
  /\ ast.fam = "hash"
  /\ checked = Unchecked
  /\ checked' = checkHashLiteral(ast.pairs, ast.expected)
  /\ UNCHANGED <<ast, tenv, at>>
  /\ UNCHANGED exceptCheck

\* C19: an array literal the type checker accepts has the type Array<T>
\* with T the type of its first element, and every element has the type T;
\* a hash literal it accepts has keys all of the type of the first key and
\* values all of the type of the first value.
ClaimC19 ==
  Accepted =>
    /\ (ast.fam = "array" /\ ast.elements # << >>) =>
         /\ checked = ArrayType(ast.elements[1])
         /\ \A i \in DOMAIN ast.elements : ast.elements[i] = ast.elements[1]
    /\ (ast.fam = "hash" /\ ast.pairs # << >>) =>
         /\ checked = HashType(ast.pairs[1].key, ast.pairs[1].value)
         /\ \A i \in DOMAIN ast.pairs : ast.pairs[i] = ast.pairs[1]

(***************************************************************************)
(* Part VI - hash keys at run time (src/runtime/objects.ts,                *)
(* src/interpreter/evaluator/evaluator.ts).  The program holds one hash in *)
(* the mutable variable h and evaluates hash literals bound to h, index    *)
(* reads h[k] and index assignments h[k] = v.  The pairs of a LumenHash    *)
(* are a function from hashed keys to pairs.                               *)
(***************************************************************************)
\* a Double holds its number as JavaScript prints it
LumenDouble(text) == [k |-> "Double", double |-> text]

LumenString(text) == [k |-> "String", str |-> text]

HashPair(key, value) == [key |-> key, value |-> value]

LumenHash(pairs) == [k |-> "Hash", pairs |-> pairs]

NoPairs == [h \in {} |-> HashPair(NULL, NULL)]

\* typeof obj.hashKey === 'function': the classes of objects.ts that define
\* hashKey are LumenInteger (40), LumenDouble (53) and LumenString (124)
isHashable(obj) == obj.k \in {"Integer", "Double", "String"}

\* objects.ts 40-42, 53-55, 124-126
hashKey(obj) ==
  CASE obj.k = "Integer" -> "INTEGER_" \o ToString(obj.value)
    [] obj.k = "Double" -> "DOUBLE_" \o obj.double
    [] obj.k = "String" -> "STRING_" \o obj.str

unusableAsHashKey(obj) == LumenError("unusable as hash key: " \o obj.k)

\* Map.set
mapSet(pairs, hashed, pair) ==
  [h \in DOMAIN pairs \cup {hashed} |-> IF h = hashed THEN pair ELSE pairs[h]]

\* evaluator.ts 339-360, on the values Eval gave for the keys and the
\* values of the literal, from pair i on
RECURSIVE evalHashLiteral(_, _, _)
evalHashLiteral(literal, i, pairs) ==
  IF i > Len(literal) THEN LumenHash(pairs)
  ELSE IF ~isHashable(literal[i].key) THEN unusableAsHashKey(literal[i].key)
  ELSE evalHashLiteral(literal, i + 1,
                       mapSet(pairs, hashKey(literal[i].key), literal[i]))

\* evaluator.ts 362-377
evalHashIndexExpression(pairs, index) ==
  IF ~isHashable(index) THEN unusableAsHashKey(index)
  ELSE IF hashKey(index) \notin DOMAIN pairs THEN LumenError("key not found in hash")
  ELSE pairs[hashKey(index)].value

\* the values used as keys: one of each kind, with payloads that print alike
Keys ==
  {LumenInteger(1), LumenDouble("1"), LumenString("1"), TRUE_OBJ, NULL, LumenArray(<< >>)}

Stored == {LumenInteger(n) : n \in Vals}

Literals == SeqsUpTo({HashPair(key, v) : key \in Keys, v \in Stored}, MaxElems)

HashOp(kind, keys) == [kind |-> kind, keys |-> keys]

InitHash ==
  /\ hashPairs = NoPairs
  /\ hashOp = HashOp("none", << >>)
  /\ hashResult = NULL

IdleHash == InitHash

\* h = { k1: v1, ... }
EvalHashLiteral ==
  \E literal \in Literals :
    LET r == evalHashLiteral(literal, 1, NoPairs) IN
    /\ hashOp' = HashOp("literal", [i \in DOMAIN literal |-> literal[i].key])
    /\ hashResult' = r
    /\ hashPairs' = IF r.k = "Hash" THEN r.pairs ELSE hashPairs
    /\ UNCHANGED exceptHash

\* h[index]
EvalHashIndexExpression ==
  \E index \in Keys :
    /\ hashOp' = HashOp("index", <<index>>)
    /\ hashResult' = evalHashIndexExpression(hashPairs, index)
    /\ UNCHANGED hashPairs
    /\ UNCHANGED exceptHash

\* h[index] = right (evaluator.ts 583-602)
EvalIndexAssignment ==
  \E index \in Keys, right \in Stored :
    /\ hashOp' = HashOp("assign", <<index>>)
    /\ IF ~isHashable(index)
       THEN /\ hashResult' = unusableAsHashKey(index)
            /\ UNCHANGED hashPairs
       ELSE /\ hashPairs' = mapSet(hashPairs, hashKey(index), HashPair(index, right))
            /\ hashResult' = right
    /\ UNCHANGED exceptHash

UsableKinds == {"Integer", "Double", "String", "Boolean"}

\* the kind tag and the value of a key of a usable kind
KindTagValue(obj) ==
  CASE obj.k = "Integer" -> "INTEGER_" \o ToString(obj.value)
    [] obj.k = "Double" -> "DOUBLE_" \o obj.double
    [] obj.k = "String" -> "STRING_" \o obj.str
    [] obj.k = "Boolean" -> "BOOLEAN_" \o (IF obj.bool THEN "true" ELSE "false")

Unusable(keys) == {i \in DOMAIN keys : keys[i].k \notin UsableKinds}

\* C20: a hash literal, an index read and an index assignment whose keys
\* are Integers, Doubles, Strings or Booleans do not answer 'unusable as
\* hash key', and the literal and the assignment leave the hash with each
\* key under its kind tag and value; with a key of another kind the
\* operation answers 'unusable as hash key' for the first such key.
ClaimC20 ==
  hashOp.kind # "none" =>
    IF Unusable(hashOp.keys) = {}
    THEN /\ hashResult.k = "ERROR" => hashResult = LumenError("key not found in hash")
         /\ hashOp.kind \in {"literal", "assign"} =>
              \A i \in DOMAIN hashOp.keys : KindTagValue(hashOp.keys[i]) \in DOMAIN hashPairs
    ELSE LET first == CHOOSE i \in Unusable(hashOp.keys) : \A j \in Unusable(hashOp.keys) : i <= j
         IN hashResult = unusableAsHashKey(hashOp.keys[first])

\* The same with Boolean left out of the usable kinds, as objects.ts has it.
HashableKinds == {"Integer", "Double", "String"}

NotHashable(keys) == {i \in DOMAIN keys : keys[i].k \notin HashableKinds}

UsableWithoutBoolean ==
  hashOp.kind # "none" =>
    IF NotHashable(hashOp.keys) = {}
    THEN /\ hashResult.k = "ERROR" => hashResult = LumenError("key not found in hash")
         /\ hashOp.kind \in {"literal", "assign"} =>
              \A i \in DOMAIN hashOp.keys : KindTagValue(hashOp.keys[i]) \in DOMAIN hashPairs
    ELSE LET first == CHOOSE i \in NotHashable(hashOp.keys) : \A j \in NotHashable(hashOp.keys) : i <= j
         IN hashResult = unusableAsHashKey(hashOp.keys[first])

(***************************************************************************)
(* Part VII - the expression parser (src/frontend parser, Pratt style).    *)
(* source describes an expression `p1 => p2 => ... body`: the forms of the *)
(* parameter lists and the form of the body.  Tokens(source) are the       *)
(* tokens the lexer gives for it, closed by `;` and EOF.  The parser state *)
(* is the position of curToken; peekToken is the token after it.           *)
(***************************************************************************)
Token(type, literal) == [type |-> type, literal |-> literal]

EOF == Token("EOF", "")

IDENT(name) == Token("IDENT", name)

LPAREN == Token("(", "(")

RPAREN == Token(")", ")")

COMMA == Token(",", ",")

FAT_ARROW == Token("=>", "=>")

PLUS == Token("+", "+")

SEMICOLON == Token(";", ";")

\* enum Precedence
LOWEST == 1

ASSIGN == 3

SUM == 9

\* precedences[type] || Precedence.LOWEST
precedenceOf(tok) ==
  CASE tok.type = "=>" -> ASSIGN
    [] tok.type = "+" -> SUM
    [] OTHER -> LOWEST

TupleLiteral(elements) == [t |-> "TupleLiteral", elements |-> elements]

\* undefined, as a parse function returns it
NoExpression == [t |-> "undefined"]

\* what a parse function leaves: the expression, the position of curToken,
\* the errors pushed so far
Parse(expr, pos, errors) == [node |-> expr, pos |-> pos, errors |-> errors]

TokenAt(toks, i) == IF i <= Len(toks) THEN toks[i] ELSE EOF

\* parseLambdaExpression: parseExpression(Precedence.ASSIGN) for the body
lambdaBodyPrecedence == ASSIGN

RECURSIVE parseExpression(_, _, _, _)
RECURSIVE parseInfixLoop(_, _, _)
RECURSIVE parseGroupedExpression(_, _, _)
RECURSIVE parseTupleRest(_, _, _, _)
RECURSIVE parseLambdaExpression(_, _, _, _)
RECURSIVE parseInfixExpression(_, _, _, _)

\* parseExpression: the prefix function of curToken, then the loop
parseExpression(toks, pos, errors, precedence) ==
  LET cur == TokenAt(toks, pos)
      prefix ==
        CASE cur.type = "IDENT" -> Parse(Identifier(cur.literal), pos, errors)
          [] cur.type = "INT" -> Parse(IntegerLiteral(cur.literal), pos, errors)
          [] cur.type = "(" -> parseGroupedExpression(toks, pos, errors)
          [] OTHER -> Parse(NoExpression, pos, Append(errors, "no prefix parse function"))
  IN IF prefix.node = NoExpression THEN prefix
     ELSE parseInfixLoop(toks, prefix, precedence)

\* the while loop of parseExpression, left the expression parsed so far
parseInfixLoop(toks, left, precedence) ==
  LET peek == TokenAt(toks, left.pos + 1) IN
  IF peek.type = ";" \/ ~(precedence < precedenceOf(peek)) THEN left
  ELSE LET newLeft ==
             IF peek.type = "=>"
             THEN parseLambdaExpression(toks, left.pos + 1, left.errors, left.node)
             ELSE parseInfixExpression(toks, left.pos + 1, left.errors, left.node)
       IN IF newLeft.node = NoExpression THEN newLeft
          ELSE parseInfixLoop(toks, newLeft, precedence)

\* parseGroupedExpression, curToken the `(`
parseGroupedExpression(toks, pos, errors) ==
  IF TokenAt(toks, pos + 1).type = ")" THEN Parse(TupleLiteral(<< >>), pos + 1, errors)
  ELSE LET exp == parseExpression(toks, pos + 1, errors, LOWEST) IN
       IF exp.node = NoExpression THEN exp
       ELSE IF TokenAt(toks, exp.pos + 1).type = ","
       THEN parseTupleRest(toks, exp.pos, exp.errors, <<exp.node>>)
       ELSE IF TokenAt(toks, exp.pos + 1).type = ")"
       THEN Parse(exp.node, exp.pos + 1, exp.errors)
       ELSE Parse(NoExpression, exp.pos, Append(exp.errors, "expected next token to be )"))

\* the elements of a tuple after the first
parseTupleRest(toks, pos, errors, elements) ==
  IF TokenAt(toks, pos + 1).type = ","
  THEN LET nextExp == parseExpression(toks, pos + 2, errors, LOWEST) IN
       parseTupleRest(toks, nextExp.pos, nextExp.errors,
                      IF nextExp.node # NoExpression THEN Append(elements, nextExp.node)
                      ELSE elements)
  ELSE IF TokenAt(toks, pos + 1).type = ")"
  THEN Parse(TupleLiteral(elements), pos + 1, errors)
  ELSE Parse(NoExpression, pos, Append(errors, "expected next token to be )"))

\* parseLambdaExpression, curToken the `=>`
parseLambdaExpression(toks, pos, errors, left) ==
  IF left.t = "Identifier" \/ left.t = "TupleLiteral"
  THEN IF left.t = "TupleLiteral" /\ \E i \in DOMAIN left.elements : left.elements[i].t # "Identifier"
       THEN Parse(NoExpression, pos,
                  Append(errors, "Invalid non-identifier parameter in lambda expression"))
       ELSE LET parameters == IF left.t = "Identifier" THEN <<left>> ELSE left.elements
                body == parseExpression(toks, pos + 1, errors, lambdaBodyPrecedence)
            IN IF body.node = NoExpression THEN body
               ELSE Parse(FunctionLiteral(parameters, body.node), body.pos, body.errors)
  ELSE Parse(NoExpression, pos,
             Append(errors, "Invalid parameter list for lambda expression"))

\* parseInfixExpression, curToken the operator
parseInfixExpression(toks, pos, errors, left) ==
  LET right == parseExpression(toks, pos + 1, errors, precedenceOf(TokenAt(toks, pos))) IN
  IF right.node = NoExpression THEN right
  ELSE Parse(InfixExpression(left, TokenAt(toks, pos).literal, right.node), right.pos, right.errors)

\* the forms of a parameter list and of a body
ParamForms == {"n", "(n)", "(n, m)", "()"}

BodyForms == {"x", "x + n", "(x)", "n + x", "x + n + m"}

Sources ==
  {[params |-> ps, body |-> b] : ps \in SeqsUpTo(ParamForms, MaxLambdas), b \in BodyForms}

ParamTokens(form) ==
  CASE form = "n" -> <<IDENT("n")>>
    [] form = "(n)" -> <<LPAREN, IDENT("n"), RPAREN>>
    [] form = "(n, m)" -> <<LPAREN, IDENT("n"), COMMA, IDENT("m"), RPAREN>>
    [] form = "()" -> <<LPAREN, RPAREN>>

BodyTokens(form) ==
  CASE form = "x" -> <<IDENT("x")>>
    [] form = "x + n" -> <<IDENT("x"), PLUS, IDENT("n")>>
    [] form = "(x)" -> <<LPAREN, IDENT("x"), RPAREN>>
    [] form = "n + x" -> <<IDENT("n"), PLUS, IDENT("x")>>
    [] form = "x + n + m" -> <<IDENT("x"), PLUS, IDENT("n"), PLUS, IDENT("m")>>

RECURSIVE Tokens(_, _)
Tokens(src, i) ==
  IF i > Len(src.params) THEN BodyTokens(src.body) \o <<SEMICOLON, EOF>>
  ELSE ParamTokens(src.params[i]) \o <<FAT_ARROW>> \o Tokens(src, i + 1)

Unparsed == Parse(NoExpression, 0, << >>)

InitParse ==
  /\ source \in Sources
  /\ parsed = Unparsed

IdleParse ==
  /\ source = [params |-> << >>, body |-> "x"]
  /\ parsed = Unparsed

\* parseExpression(Precedence.LOWEST) on the value of a let statement
ParseExpression ==
  /\ parsed = Unparsed
  /\ parsed' = parseExpression(Tokens(source, 1), 1, << >>, LOWEST)
  /\ UNCHANGED source
  /\ UNCHANGED exceptParse

\* the parameters a list of the form declares
ParamNames(form) ==
  CASE form = "n" -> <<Identifier("n")>>
    [] form = "(n)" -> <<Identifier("n")>>
    [] form = "(n, m)" -> <<Identifier("n"), Identifier("m")>>
    [] form = "()" -> << >>

BodyExpression(form) ==
  CASE form = "x" -> Identifier("x")
    [] form = "x + n" -> InfixExpression(Identifier("x"), "+", Identifier("n"))
    [] form = "(x)" -> Identifier("x")
    [] form = "n + x" -> InfixExpression(Identifier("n"), "+", Identifier("x"))
    [] form = "x + n + m" ->
         InfixExpression(InfixExpression(Identifier("x"), "+", Identifier("n")), "+", Identifier("m"))

\* the nested functions the expression stands for
RECURSIVE NestedFunctions(_, _)
NestedFunctions(src, i) ==
  IF i > Len(src.params) THEN BodyExpression(src.body)
  ELSE FunctionLiteral(ParamNames(src.params[i]), NestedFunctions(src, i + 1))

\* C21: p1 => p2 => ... body parses without error as nested functions, the
\* function with the parameters p1 having the function with the parameters
\* p2 as its body, and so on; (n) => (x) => x + n is a function of n whose
\* body is a function of x with the body x + n.
ClaimC21 ==
  parsed # Unparsed =>
    /\ parsed.errors = << >>
    /\ parsed.node = NestedFunctions(source, 1)

\* The same for the expressions with at most one lambda.
SingleLambdaParses ==
  (parsed # Unparsed /\ Len(source.params) <= 1) =>
    /\ parsed.errors = << >>
    /\ parsed.node = NestedFunctions(source, 1)

(***************************************************************************)
(* Part VIII - the lexer (src/frontend lexer).  input is the source text,  *)
(* positions are 0-based as in the code, so the character at position p is *)
(* input[p + 1]; null is the value of ch past the end of the input.        *)
(***************************************************************************)
null == "null"

charAt(in, p) == IF p >= Len(in) THEN null ELSE in[p + 1]

\* constructor, before its readChar
NewLexer == [position |-> 0, readPosition |-> 0, ch |-> null, line |-> 1, column |-> 1]

readChar(in, lx) ==
  LET c == charAt(in, lx.readPosition) IN
  [lx EXCEPT !.ch = c,
             !.position = lx.readPosition,
             !.readPosition = lx.readPosition + 1,
             !.column = IF c # "\n" THEN lx.column + 1 ELSE lx.column]

Lexer(in) == readChar(in, NewLexer)

peekChar(in, lx) == charAt(in, lx.readPosition)

\* line++ and the column reset the loops make on a newline
newline(lx, col) ==
  IF lx.ch = "\n" THEN [lx EXCEPT !.line = lx.line + 1, !.column = col] ELSE lx

isLetter(ch) == ch \in {"a", "z", "A", "Z", "_"}

isDigit(ch) == ch \in {"0", "1", "9"}

twoCharOperators == {"==", "!=", ">=", "<=", "&&", "||", "->", "|>", "=>", "+="}

singleCharOperators ==
  {"=", ";", ":", "(", ")", ",", "+", "-", "!", "*", "/", "|", "%", "<", ">",
   "{", "}", ".", "[", "]", "?"}

RECURSIVE skipWhitespace(_, _)
skipWhitespace(in, lx) ==
  IF lx.ch \in {" ", "\t", "\n"}
  THEN skipWhitespace(in, readChar(in, newline(lx, 1)))
  ELSE lx

RECURSIVE skipComment(_, _)
skipComment(in, lx) ==
  IF lx.ch # "\n" /\ lx.ch # null THEN skipComment(in, readChar(in, lx)) ELSE lx

RECURSIVE skipMultiLineCommentLoop(_, _)
skipMultiLineCommentLoop(in, lx) ==
  IF lx.ch = null THEN lx
  ELSE IF lx.ch = "*" /\ peekChar(in, lx) = "/" THEN readChar(in, readChar(in, lx))
  ELSE skipMultiLineCommentLoop(in, readChar(in, newline(lx, 1)))

skipMultiLineComment(in, lx) == skipMultiLineCommentLoop(in, readChar(in, readChar(in, lx)))

RECURSIVE readIdentifier(_, _)
readIdentifier(in, lx) ==
  IF lx.ch # null /\ (isLetter(lx.ch) \/ isDigit(lx.ch))
  THEN readIdentifier(in, readChar(in, lx))
  ELSE lx

RECURSIVE readDigits(_, _)
readDigits(in, lx) ==
  IF lx.ch # null /\ isDigit(lx.ch) THEN readDigits(in, readChar(in, lx)) ELSE lx

\* readNumber: the lexer after it and the type of the token
readNumber(in, lx) ==
  LET whole == readDigits(in, lx) IN
  IF whole.ch = "." /\ peekChar(in, whole) # null /\ isDigit(peekChar(in, whole))
  THEN [lx |-> readDigits(in, readChar(in, whole)), type |-> "DOUBLE"]
  ELSE [lx |-> whole, type |-> "INT"]

RECURSIVE readString(_, _)
readString(in, lx) ==
  IF lx.ch = "\"" \/ lx.ch = null THEN lx
  ELSE IF lx.ch = "\\"
  THEN LET escaped == readChar(in, lx) IN
       IF escaped.ch = null THEN escaped ELSE readString(in, readChar(in, escaped))
  ELSE readString(in, readChar(in, lx))

opensMultiLineString(in, lx) ==
  lx.ch = "\"" /\ peekChar(in, lx) = "\"" /\ charAt(in, lx.readPosition + 1) = "\""

RECURSIVE readMultiLineStringLoop(_, _)
readMultiLineStringLoop(in, lx) ==
  IF lx.ch = null THEN lx
  ELSE IF opensMultiLineString(in, lx) THEN readChar(in, readChar(in, readChar(in, lx)))
  ELSE readMultiLineStringLoop(in, readChar(in, newline(lx, 0)))

readMultiLineString(in, lx) ==
  readMultiLineStringLoop(in, readChar(in, readChar(in, readChar(in, lx))))

\* the lexer after the ILLEGAL token was made
illegalStays(in, lx) == lx

illegal(in, lx) == readChar(in, lx)

\* createToken, with the position of the first character of the token
createToken(type, start) ==
  [type |-> type, line |-> start.line, column |-> start.column, start |-> start.position]

Lexed(lx, tok) == [lx |-> lx, tok |-> tok]

\* nextToken: the lexer after the call and the token returned
RECURSIVE nextToken(_, _)
nextToken(in, lx0) ==
  LET lx == skipWhitespace(in, lx0)
      two == lx.ch \o (IF peekChar(in, lx) = null THEN "" ELSE peekChar(in, lx))
  IN
  IF lx.ch = null
  THEN Lexed(lx, [type |-> "EOF", line |-> lx.line, column |-> lx.column, start |-> Len(in)])
  ELSE IF lx.ch = "/" /\ peekChar(in, lx) = "/" THEN nextToken(in, skipComment(in, lx))
  ELSE IF lx.ch = "/" /\ peekChar(in, lx) = "*" THEN nextToken(in, skipMultiLineComment(in, lx))
  ELSE IF two \in twoCharOperators
  THEN Lexed(readChar(in, readChar(in, lx)), createToken(two, lx))
  ELSE IF lx.ch = "." /\ peekChar(in, lx) = "." /\ charAt(in, lx.readPosition + 1) = "."
  THEN Lexed(readChar(in, readChar(in, readChar(in, lx))), createToken("...", lx))
  ELSE IF lx.ch \in singleCharOperators THEN Lexed(readChar(in, lx), createToken(lx.ch, lx))
  ELSE IF isLetter(lx.ch) THEN Lexed(readIdentifier(in, lx), createToken("IDENT", lx))
  ELSE IF isDigit(lx.ch)
  THEN LET number == readNumber(in, lx) IN Lexed(number.lx, createToken(number.type, lx))
  ELSE IF opensMultiLineString(in, lx)
  THEN Lexed(readMultiLineString(in, lx), createToken("STRING", lx))
  ELSE IF lx.ch = "\""
  THEN Lexed(readChar(in, readString(in, readChar(in, lx))), createToken("STRING", lx))
  ELSE Lexed(illegal(in, lx), createToken("ILLEGAL", lx))

\* the characters of the inputs: a letter, a digit, blank and newline, the
\* characters of comments, strings and operators, and one no rule knows
Chars == {"a", "1", " ", "\n", "/", "*", "\"", "\\", "=", ".", "#"}

Inputs == SeqsUpTo(Chars, MaxInput)

InitLex ==
  /\ input \in Inputs
  /\ lexer = Lexer(input)
  /\ lexed = << >>

IdleLex ==
  /\ input = << >>
  /\ lexer = Lexer(<< >>)
  /\ lexed = << >>

\* one call of nextToken, as the parser makes them (it keeps calling at EOF)
NextToken ==
  /\ Len(lexed) < Len(input) + 2
  /\ LET r == nextToken(input, lexer) IN
       /\ lexer' = r.lx
       /\ lexed' = Append(lexed, [tok |-> r.tok, from |-> lexer.position, to |-> r.lx.position])
  /\ UNCHANGED input
  /\ UNCHANGED exceptLex

\* newline characters before position p
RECURSIVE newlinesBefore(_, _)
newlinesBefore(in, p) ==
  IF p = 0 THEN 0 ELSE newlinesBefore(in, p - 1) + (IF in[p] = "\n" THEN 1 ELSE 0)

\* position p is the first character of a line
startsLine(in, p) == p = 0 \/ in[p] = "\n"

LineCounts ==
  \A i \in DOMAIN lexed : lexed[i].tok.line = 1 + newlinesBefore(input, lexed[i].tok.start)

FirstColumnIsOne ==
  \A i \in DOMAIN lexed :
    (lexed[i].tok.type # "EOF" /\ startsLine(input, lexed[i].tok.start)) => lexed[i].tok.column = 1

ColumnsNeverDecrease ==
  \A i, j \in DOMAIN lexed :
    (i < j /\ newlinesBefore(input, lexed[i].tok.start) = newlinesBefore(input, lexed[j].tok.start))
      => lexed[i].tok.column <= lexed[j].tok.column

\* C22: every token's line is 1 plus the number of newlines before its first
\* character, a token that starts at the first character of a line has
\* column 1, and along one line the columns of successive tokens never
\* decrease.
ClaimC22 == LineCounts /\ FirstColumnIsOne /\ ColumnsNeverDecrease

\* The column the code gives a token: one more than the 1-based column of
\* its first character, whenever no multi-line string came before it.
ColumnIsOneMore ==
  \A i \in DOMAIN lexed :
    (lexed[i].tok.type # "EOF" /\ startsLine(input, lexed[i].tok.start)
       /\ \A j \in 1..i : lexed[j].tok.type # "STRING")
      => lexed[i].tok.column = 2

Consumes ==
  \A i \in DOMAIN lexed : lexed[i].tok.type = "EOF" \/ lexed[i].to > lexed[i].from

IllegalAdvancesOne ==
  \A i \in DOMAIN lexed : lexed[i].tok.type = "ILLEGAL" => lexed[i].to = lexed[i].tok.start + 1

EOFStays ==
  \A i, j \in DOMAIN lexed : (i < j /\ lexed[i].tok.type = "EOF") => lexed[j].tok.type = "EOF"

EOFInTime ==
  Len(lexed) >= Len(input) + 1 => lexed[Len(input) + 1].tok.type = "EOF"

\* C23: every call of nextToken returns EOF or consumes at least one
\* character, an unrecognized character gives one ILLEGAL token and moves
\* the lexer one position on, EOF is returned by call length+1 at the latest
\* and by every call after an EOF.
ThmC23 == Consumes /\ IllegalAdvancesOne /\ EOFStays /\ EOFInTime

\* an input of the full length with an unrecognized character has been
\* lexed to its end and nextToken called once more
WitC23 ==
  /\ Len(input) = MaxInput
  /\ Len(lexed) = Len(input) + 2
  /\ \E i \in DOMAIN lexed : lexed[i].tok.type = "ILLEGAL"
  /\ \E i \in DOMAIN lexed : lexed[i].tok.type = "STRING"
  /\ lexed[Len(lexed)].tok.type = "EOF"

(***************************************************************************)
(* Part IX - substitute and the instantiate functions on type objects      *)
(* (src/interpreter/typechecker/utils.ts).  The memo of substitute is a    *)
(* Map keyed by object identity, so here a type is an object in `objects`  *)
(* and refers to its components by their index: params are the             *)
(* typeParameters (TypeVariable objects), args the element type, the key   *)
(* and value type or the typeArguments, members the parameters of the      *)
(* variant of a sum or the field types of a record.                        *)
(***************************************************************************)
Object(k, name, params, args, members) ==
  [k |-> k, name |-> name, params |-> params, args |-> args, members |-> members]

TypeVariableObject(name) == Object("TYPE_VARIABLE", name, << >>, << >>, << >>)

IntegerObject == Object("INTEGER", "", << >>, << >>, << >>)

ErrorObject == Object("ERROR", "incorrect number of type arguments", << >>, << >>, << >>)

\* Map has / get / set / delete on the memo, a set of <<key, value>>
memoHas(memo, key) == \E p \in memo : p[1] = key

memoGet(memo, key) == (CHOOSE p \in memo : p[1] = key)[2]

memoDelete(memo, key) == {p \in memo : p[1] # key}

memoSet(memo, key, value) == memoDelete(memo, key) \cup {<<key, value>>}

\* what substitute leaves: the objects, the memo, the object returned and
\* the number of calls of substitute made
Substituted(heap, memo, id, calls) == [heap |-> heap, memo |-> memo, id |-> id, calls |-> calls]

\* new X(...): the object is put after the existing ones
New(heap, object) == Append(heap, object)

RECURSIVE substituteIn(_, _, _, _, _)
RECURSIVE substituteAll(_, _, _, _, _, _, _)

\* list.map((p) => substitute(p, substitutions, memo))
substituteAll(heap, memo, list, i, done, subs, calls) ==
  IF i > Len(list) THEN [heap |-> heap, memo |-> memo, ids |-> done, calls |-> calls]
  ELSE LET r == substituteIn(heap, memo, list[i], subs, calls) IN
       substituteAll(r.heap, r.memo, list, i + 1, Append(done, r.id), subs, r.calls)

\* substitute(type, substitutions, memo); calls counts the calls so far
substituteIn(heap, memo, type, subs, calls) ==
  LET o == heap[type]
      marked == memoSet(memo, type, type)
  IN
  IF memoHas(memo, type) THEN Substituted(heap, memo, memoGet(memo, type), calls + 1)
  ELSE IF o.k = "TYPE_VARIABLE"
  THEN IF subs[o.name] # 0
       THEN LET r == substituteIn(heap, marked, subs[o.name], subs, calls + 1) IN
            Substituted(r.heap, memoSet(r.memo, type, r.id), r.id, r.calls)
       ELSE Substituted(heap, memo, type, calls + 1)
  ELSE IF o.k = "ARRAY"
  THEN LET r == substituteIn(heap, marked, o.args[1], subs, calls + 1)
           newType == Len(r.heap) + 1
       IN Substituted(New(r.heap, [o EXCEPT !.args = <<r.id>>]),
                      memoSet(r.memo, type, newType), newType, r.calls)
  ELSE IF o.k = "RECORD"
  THEN LET a == substituteAll(heap, marked, IF o.args # << >> THEN o.args ELSE o.params,
                              1, << >>, subs, calls + 1)
           f == substituteAll(a.heap, a.memo, o.members, 1, << >>, subs, a.calls)
           newType == Len(f.heap) + 1
       IN Substituted(New(f.heap, [o EXCEPT !.args = a.ids, !.members = f.ids]),
                      memoSet(f.memo, type, newType), newType, f.calls)
  ELSE IF o.k = "SUM_TYPE"
  THEN LET a == substituteAll(heap, marked, IF o.args # << >> THEN o.args ELSE o.params,
                              1, << >>, subs, calls + 1)
           instantiatedSumType == Len(a.heap) + 1
           v == substituteAll(New(a.heap, [o EXCEPT !.args = a.ids, !.members = << >>]),
                              memoSet(a.memo, type, instantiatedSumType),
                              o.members, 1, << >>, subs, a.calls)
       IN Substituted([v.heap EXCEPT ![instantiatedSumType].members = v.ids],
                      memoSet(v.memo, type, instantiatedSumType), instantiatedSumType, v.calls)
  ELSE IF o.k = "TRAIT"
  THEN LET a == substituteAll(heap, marked, o.args, 1, << >>, subs, calls + 1)
           newType == Len(a.heap) + 1
       IN Substituted(New(a.heap, [o EXCEPT !.args = a.ids]),
                      memoSet(a.memo, type, newType), newType, a.calls)
  ELSE Substituted(heap, memoDelete(marked, type), type, calls + 1)

NoSubs == [n \in TypeVariableNames |-> 0]

\* substitutions.set(param.name, typeArguments[i]) for each type parameter
parameterSubstitutions(heap, params, typeArguments) ==
  [n \in TypeVariableNames |->
     IF \E i \in DOMAIN params : heap[params[i]].name = n
     THEN typeArguments[CHOOSE i \in DOMAIN params :
                          /\ heap[params[i]].name = n
                          /\ \A j \in DOMAIN params : heap[params[j]].name = n => j <= i]
     ELSE 0]

Instantiated(heap, id, calls) == [heap |-> heap, id |-> id, calls |-> calls]

instantiateSumType(heap, genericSumType, typeArguments) ==
  LET g == heap[genericSumType] IN
  IF Len(g.params) # Len(typeArguments)
  THEN Instantiated(New(heap, ErrorObject), Len(heap) + 1, 0)
  ELSE LET r == substituteIn(heap, {}, genericSumType,
                             parameterSubstitutions(heap, g.params, typeArguments), 0)
       IN Instantiated([r.heap EXCEPT ![r.id].args = typeArguments], r.id, r.calls)

RECURSIVE substituteFields(_, _, _, _, _, _)
substituteFields(heap, fields, i, done, subs, calls) ==
  IF i > Len(fields) THEN [heap |-> heap, ids |-> done, calls |-> calls]
  ELSE LET r == substituteIn(heap, {}, fields[i], subs, 0) IN
       substituteFields(r.heap, fields, i + 1, Append(done, r.id), subs, calls + r.calls)

instantiateRecordType(heap, genericRecordType, typeArguments) ==
  LET g == heap[genericRecordType] IN
  IF Len(g.params) # Len(typeArguments)
  THEN Instantiated(New(heap, ErrorObject), Len(heap) + 1, 0)
  ELSE LET f == substituteFields(heap, g.members, 1, << >>,
                                 parameterSubstitutions(heap, g.params, typeArguments), 0)
       IN Instantiated(New(f.heap, Object("RECORD", g.name, << >>,
                                          typeArguments, f.ids)),
                       Len(f.heap) + 1, f.calls)

instantiateTraitType(heap, genericTraitType, typeArguments) ==
  LET g == heap[genericTraitType] IN
  IF Len(g.params) # Len(typeArguments)
  THEN Instantiated(New(heap, ErrorObject), Len(heap) + 1, 0)
  ELSE Instantiated(New(heap, Object("TRAIT", g.name, << >>, typeArguments, << >>)),
                    Len(heap) + 1, 0)

GenericKinds == {"SUM_TYPE", "RECORD", "TRAIT"}

\* the objects that can come next in memory: type variables, Integer, an
\* array or a hash of earlier objects, and a sum, record or trait that is
\* not generic, a generic definition, or an instantiation; only the variant
\* of a sum can refer to an object made after it (variants are set later)
NextObjects(heap, n) ==
  LET earlier == 1..Len(heap)
      variables == {j \in earlier : heap[j].k = "TYPE_VARIABLE"}
      heads == {<<<< >>, << >>>>} \cup {<<<<p>>, << >>>> : p \in variables}
                 \cup {<<<<p>>, <<a>>>> : p \in variables, a \in earlier}
  IN {TypeVariableObject(v) : v \in TypeVariableNames} \cup {IntegerObject}
     \cup {Object("ARRAY", "", << >>, <<j>>, << >>) : j \in earlier}
     \cup {Object("HASH", "", << >>, <<j, k>>, << >>) : j, k \in earlier}
     \cup {Object("SUM_TYPE", "S", h[1], h[2], m) :
             h \in heads, m \in {<< >>} \cup {<<j>> : j \in 1..n}}
     \cup {Object("RECORD", "R", h[1], h[2], m) :
             h \in heads, m \in {<< >>} \cup {<<j>> : j \in earlier}}
     \cup {Object("TRAIT", "Tr", h[1], h[2], << >>) : h \in heads}

RECURSIVE Heaps(_, _)
Heaps(i, n) ==
  IF i = 0 THEN {<< >>}
  ELSE UNION {{Append(h, o) : o \in NextObjects(h, n)} : h \in Heaps(i - 1, n)}

Jobs(n) ==
  {[op |-> "substitute", target |-> n, subs |-> s, typeArguments |-> << >>] :
     s \in [TypeVariableNames -> 0..n]}
  \cup {[op |-> "instantiate", target |-> n, subs |-> NoSubs, typeArguments |-> a] :
          a \in SeqsUpTo(1..n, 1)}

NotMade == [id |-> 0, calls |-> 0]

InitSubst ==
  /\ objects \in Heaps(MaxObjects, MaxObjects)
  /\ job \in Jobs(MaxObjects)
  /\ made = NotMade

IdleSubst ==
  /\ objects = << >>
  /\ job = [op |-> "none", target |-> 0, subs |-> NoSubs, typeArguments |-> << >>]
  /\ made = NotMade

Substitute ==
  /\ made = NotMade
  /\ job.op = "substitute"
  /\ LET r == substituteIn(objects, {}, job.target, job.subs, 0) IN
       /\ objects' = r.heap
       /\ made' = [id |-> r.id, calls |-> r.calls]
  /\ UNCHANGED job
  /\ UNCHANGED exceptSubst

InstantiateSumType ==
  /\ made = NotMade
  /\ job.op = "instantiate"
  /\ objects[job.target].k = "SUM_TYPE"
  /\ LET r == instantiateSumType(objects, job.target, job.typeArguments) IN
       /\ objects' = r.heap
       /\ made' = [id |-> r.id, calls |-> r.calls]
  /\ UNCHANGED job
  /\ UNCHANGED exceptSubst

InstantiateRecordType ==
  /\ made = NotMade
  /\ job.op = "instantiate"
  /\ objects[job.target].k = "RECORD"
  /\ LET r == instantiateRecordType(objects, job.target, job.typeArguments) IN
       /\ objects' = r.heap
       /\ made' = [id |-> r.id, calls |-> r.calls]
  /\ UNCHANGED job
  /\ UNCHANGED exceptSubst

InstantiateTraitType ==
  /\ made = NotMade
  /\ job.op = "instantiate"
  /\ objects[job.target].k = "TRAIT"
  /\ LET r == instantiateTraitType(objects, job.target, job.typeArguments) IN
       /\ objects' = r.heap
       /\ made' = [id |-> r.id, calls |-> r.calls]
  /\ UNCHANGED job
  /\ UNCHANGED exceptSubst

\* the component types of an object: its element, key and value types or
\* type arguments, the parameters of its variant or its fields, and for a
\* generic sum or record without type arguments its type parameters, which
\* stand for the arguments
Components(o) ==
  Elems(o.args) \cup Elems(o.members)
  \cup (IF o.k \in {"SUM_TYPE", "RECORD"} /\ o.args = << >> THEN Elems(o.params) ELSE {})

\* the objects a type is made of: itself and the components of its parts
RECURSIVE Parts(_, _)
Parts(heap, ids) ==
  LET more == ids \cup UNION {Components(heap[x]) : x \in ids}
  IN IF more = ids THEN ids ELSE Parts(heap, more)

FreeVariables(heap, id) ==
  {heap[x].name : x \in {y \in Parts(heap, {id}) : heap[y].k = "TYPE_VARIABLE"}}

Domain(subs) == {n \in TypeVariableNames : subs[n] # 0}

\* the variables a variable leads to by the substitution, in one or more steps
RECURSIVE LeadsTo(_, _, _)
LeadsTo(heap, subs, names) ==
  LET more == names \cup UNION {FreeVariables(heap, subs[m]) : m \in names \cap Domain(subs)}
  IN IF more = names THEN names ELSE LeadsTo(heap, subs, more)

Acyclic(heap, subs) ==
  \A n \in Domain(subs) : n \notin LeadsTo(heap, subs, FreeVariables(heap, subs[n]))

\* substitute has returned after a number of calls the objects bound
SubstituteTerminates ==
  (job.op = "substitute" /\ made # NotMade) => made.calls <= 1 + 2 * MaxObjects

NoFreeVariableLeft ==
  (job.op = "substitute" /\ made # NotMade /\ Acyclic(objects, job.subs))
    => FreeVariables(objects, made.id) \cap Domain(job.subs) = {}

\* C24: substitute(T, s) returns for every type T and every substitution s,
\* cyclic ones included, and when s is acyclic the type it returns contains
\* no variable of the domain of s.
ClaimC24 == SubstituteTerminates /\ NoFreeVariableLeft

\* The second half for the types made without a Hash.
NoFreeVariableLeftWithoutHash ==
  (/\ job.op = "substitute" /\ made # NotMade /\ Acyclic(objects, job.subs)
   /\ \A x \in Parts(objects, {job.target} \cup {job.subs[n] : n \in Domain(job.subs)}) :
        objects[x].k # "HASH")
    => FreeVariables(objects, made.id) \cap Domain(job.subs) = {}

\* the call has returned a sum, record or trait made from a generic one:
\* by an instantiate function, or by substitute with type arguments in it
InstantiatedGeneric ==
  /\ made # NotMade
  /\ objects[job.target].k \in GenericKinds
  /\ objects[job.target].params # << >>
  /\ objects[made.id].k \in GenericKinds
  /\ job.op = "instantiate" \/ objects[made.id].args # << >>

StoresParametersAndArguments ==
  /\ objects[made.id].params = objects[job.target].params
  /\ Len(objects[made.id].args) = Len(objects[made.id].params)

\* C25: a sum, record or trait made by instantiation or by substitution
\* still stores the type parameters of its generic definition, and has as
\* many type arguments as type parameters.
ClaimC25 == InstantiatedGeneric => StoresParametersAndArguments

\* The same for the sums alone.
SumsStoreParametersAndArguments ==
  (InstantiatedGeneric /\ objects[made.id].k = "SUM_TYPE") => StoresParametersAndArguments

\* The same for what substitute returns.
SubstituteStoresParametersAndArguments ==
  (InstantiatedGeneric /\ job.op = "substitute") => StoresParametersAndArguments

(***************************************************************************)
(* Specifications                                                          *)
(***************************************************************************)
NoProgram == [fam |-> "none", site |-> "none", how |-> "none", a |-> 0, b |-> 0]

IdleEval ==
  /\ program = NoProgram
  /\ pc = 1
  /\ st = EmptyStore
  /\ result = NULL
  /\ halted = TRUE

\* the evaluator on the scenario programs
Init == InitEval /\ InitLoader /\ IdleUse /\ IdleUnify /\ IdleCheck /\ IdleHash /\ IdleParse /\ IdleLex /\ IdleSubst

Next == EvalStatement

Spec == Init /\ [][Next]_vars

\* the module loader
InitL == IdleEval /\ InitLoader /\ IdleUse /\ IdleUnify /\ IdleCheck /\ IdleHash /\ IdleParse /\ IdleLex /\ IdleSubst

NextL ==
  \/ \E m \in Modules : TopLoad(m)
  \/ TopReturn
  \/ LoadNative
  \/ ReadFails
  \/ ParseFails
  \/ ReadAndParse
  \/ CheckUse
  \/ CheckUseReturn
  \/ CheckEnd
  \/ EvalUse
  \/ EvalUseReturn
  \/ EvalEnd

SpecLoader == InitL /\ [][NextL]_vars

\* a use of a loaded module, checked and evaluated
InitU == IdleEval /\ InitLoader /\ InitUse /\ IdleUnify /\ IdleCheck /\ IdleHash /\ IdleParse /\ IdleLex /\ IdleSubst

NextU == CheckImporter \/ EvalImporter

SpecUse == InitU /\ [][NextU]_vars

\* one call of unify
InitY == IdleEval /\ InitLoader /\ IdleUse /\ InitUnify /\ IdleCheck /\ IdleHash /\ IdleParse /\ IdleLex /\ IdleSubst

NextY == Unify

SpecUnify == InitY /\ [][NextY]_vars

\* check of a `?` expression inside nested function literals
InitT == IdleEval /\ InitLoader /\ IdleUse /\ IdleUnify /\ InitTry /\ IdleHash /\ IdleParse /\ IdleLex /\ IdleSubst

NextT == CheckFunctionLiteral \/ CheckTryExpression

SpecTry == InitT /\ [][NextT]_vars

\* check of a match expression on a scrutinee of a sum type
InitM == IdleEval /\ InitLoader /\ IdleUse /\ IdleUnify /\ InitMatch /\ IdleHash /\ IdleParse /\ IdleLex /\ IdleSubst

NextM == CheckMatchExpression

SpecMatch == InitM /\ [][NextM]_vars

\* check of an assignment after the declarations of its target
InitA == IdleEval /\ InitLoader /\ IdleUse /\ IdleUnify /\ InitAssign /\ IdleHash /\ IdleParse /\ IdleLex /\ IdleSubst

NextA ==
  \/ CheckLetStatement
  \/ CheckUseStatement
  \/ CheckParameters
  \/ CheckArm
  \/ CheckAssignment

SpecAssign == InitA /\ [][NextA]_vars

\* check of an array literal or of a hash literal
InitH == IdleEval /\ InitLoader /\ IdleUse /\ IdleUnify /\ InitLiteral /\ IdleHash /\ IdleParse /\ IdleLex /\ IdleSubst

NextH == CheckArrayLiteral \/ CheckHashLiteral

SpecLiteral == InitH /\ [][NextH]_vars

\* hash literals, index reads and index assignments on one hash
InitK == IdleEval /\ InitLoader /\ IdleUse /\ IdleUnify /\ IdleCheck /\ InitHash /\ IdleParse /\ IdleLex /\ IdleSubst

NextK == EvalHashLiteral \/ EvalHashIndexExpression \/ EvalIndexAssignment

SpecHash == InitK /\ [][NextK]_vars

\* parseExpression on an expression of lambdas
InitP == IdleEval /\ InitLoader /\ IdleUse /\ IdleUnify /\ IdleCheck /\ IdleHash /\ InitParse /\ IdleLex /\ IdleSubst

NextP == ParseExpression

SpecParse == InitP /\ [][NextP]_vars

\* the lexer on every short input
InitX == IdleEval /\ InitLoader /\ IdleUse /\ IdleUnify /\ IdleCheck /\ IdleHash /\ IdleParse /\ InitLex /\ IdleSubst

NextX == NextToken

SpecLex == InitX /\ [][NextX]_vars

\* substitute and the instantiate functions on every small memory of types
InitO == IdleEval /\ InitLoader /\ IdleUse /\ IdleUnify /\ IdleCheck /\ IdleHash /\ IdleParse /\ IdleLex /\ InitSubst

NextO == Substitute \/ InstantiateSumType \/ InstantiateRecordType \/ InstantiateTraitType

SpecSubst == InitO /\ [][NextO]_vars

====
